---- MODULE Spec2Model ----
(***************************************************************************)
(* Pane/tab identity reconciliation engine of the maestro Zellij plugin.   *)
(* The state is the plugin's Model (src/model.rs); every action is one     *)
(* event handler of src/handlers/session.rs or one pane operation of       *)
(* src/handlers/panes.rs, applied to the whole Model.                      *)
(*                                                                         *)
(* Conventions: Option<T> is a tuple, None == <<>> and Some(x) == <<x>>.   *)
(* Vec indices are 0-based in the data (tab indices, selected_pane) and    *)
(* are shifted by one when a TLA+ sequence is indexed.                     *)
(***************************************************************************)
EXTENDS Integers, Sequences, FiniteSets, TLC

\* ---------------------------------------------------------------- bounds
\* Largest number of records the table may hold (guards of the actions).
MaxPanes == 2
\* Host pane ids are 1..MaxPaneId.
MaxPaneId == 2
\* Longest tab list a host event carries; tab positions are 0..MaxTabs-1.
MaxTabs == 1

\* --------------------------------------------------------------- options
None == <<>>
Some(x) == <<x>>
IsSome(o) == o # <<>>
Unwrap(o) == o[1]

\* Vec::get / slice::get with a 0-based index.
Get(seq, idx) == IF idx + 1 \in DOMAIN seq THEN Some(seq[idx + 1]) ELSE None
\* Vec::contains.
Contains(seq, x) == \E i \in DOMAIN seq : seq[i] = x
\* Vec::first.
First(seq) == IF Len(seq) > 0 THEN Some(seq[1]) ELSE None
\* Iterator::find over a Vec: 1-based position of the first hit, 0 if none.
FindIndex(seq, P(_)) ==
  IF \E i \in DOMAIN seq : P(seq[i])
  THEN CHOOSE i \in DOMAIN seq : P(seq[i]) /\ \A j \in 1..(i - 1) : ~P(seq[j])
  ELSE 0

\* ---------------------------------------------------------- PaneStatus
Running == <<"Running">>
Exited(code) == <<"Exited", code>>
\* A status that ignores the `exited` flag of the reported pane.
StatusOf_Running(pane) == Running
\* `if pane.exited { Exited(pane.exit_status) } else { Running }`
StatusOf(pane) == IF pane.exited THEN Exited(pane.exit_status) ELSE Running

\* ------------------------------------------------------------- strings
\* str::to_ascii_lowercase on the strings the model uses.
AsciiLower(s) ==
  CASE s = "CX" -> "cx"
    [] s = "Codex" -> "codex"
    [] s = "Codex - proj" -> "codex - proj"
    [] OTHER -> s
\* `a.eq_ignore_ascii_case(b)`
EqIgnoreAsciiCase(a, b) == AsciiLower(a) = AsciiLower(b)
\* `pane_title.split(" - ").next().unwrap_or(pane_title).trim()`
TitleBase(s) ==
  CASE s = "Codex - proj" -> "Codex"
    [] OTHER -> s
\* `path.rsplit('/').next().unwrap_or(path)`
workspace_basename(path) ==
  CASE path = "/host/proj" -> "proj"
    [] path = "proj" -> "proj"
    [] OTHER -> path
default_tab_name(workspace_path) ==
  LET basename == workspace_basename(workspace_path)
  IN IF basename = "" THEN "maestro:workspace" ELSE "maestro:" \o basename
\* Option<PathBuf>: trims, drops the "/host" mount prefix, None when empty.
resolve_workspace_path(path) ==
  CASE path = "" -> None
    [] path = "/host" -> None
    [] path = "/host/proj" -> Some("proj")
    [] OTHER -> Some(path)
\* A fallback title that leaves the pane id out.
PaneFallbackTitle_Bare(pane_id) == "pane"
\* `format!("pane:{pane_id}")`
PaneFallbackTitle(pane_id) == "pane:" \o ToString(pane_id)
\* The random part of a reserved title; the k-th value of the generator.
Uuid(k) == "u" \o ToString(k)

\* ------------------------------------------------------------- catalog
\* The loaded agent definitions (name, argv).
Catalog == << [name |-> "codex", command |-> <<"cx", "--full-auto">>] >>

find_agent_by_command(agts, pane_title) ==
  LET title_base == TitleBase(pane_title)
      Hit(agent) == /\ Len(agent.command) > 0
                    /\ \/ EqIgnoreAsciiCase(agent.command[1], title_base)
                       \/ EqIgnoreAsciiCase(title_base, agent.name)
      i == FindIndex(agts, Hit)
  IN IF i = 0 THEN None ELSE Some(agts[i])

\* --------------------------------------------------------------- state
VARIABLES
  permissions_granted, permissions_denied,
  agents,            \* Vec<Agent>
  agent_panes,       \* Vec<AgentPane>, the record table
  tab_names,         \* Vec<String>, the tab roster
  error_message,
  filter_text,
  session_name,      \* Option<String>, the pinned session
  selected_pane, selected_agent,
  custom_tab_name    \* Option<String>, set by the new-pane wizard

vars == << permissions_granted, permissions_denied, agents, agent_panes,
           tab_names, error_message, filter_text, session_name,
           selected_pane, selected_agent, custom_tab_name >>

\* AgentPane.  `uid` is not a field of the struct and no handler reads it:
\* while a handler runs it names the slot the record had in the Vec when the
\* handler was entered (1-based), and it is 0 for a record the handler
\* creates.  It is what "the same record" means across one handler call.
AgentPane(title, tab, pending, id, workspace, agent, status) ==
  [ uid |-> 0, pane_title |-> title, tab_name |-> tab,
    pending_tab_index |-> pending, pane_id |-> id,
    workspace_path |-> workspace, agent_name |-> agent, status |-> status ]
Tagged(panes) == [i \in DOMAIN panes |-> [panes[i] EXCEPT !.uid = i]]
Untagged(panes) == [i \in DOMAIN panes |-> [panes[i] EXCEPT !.uid = 0]]

\* The Model as one value, as a handler finds it.  `requests` is not a field
\* of the struct: it lists, in order, the calls to the host (new_tab,
\* go_to_tab_name, open_command_pane, focus_terminal_pane,
\* close_terminal_pane) the handler has made since it was entered.
St ==
  [ permissions_granted |-> permissions_granted,
    permissions_denied |-> permissions_denied,
    agents |-> agents,
    agent_panes |-> Tagged(agent_panes),
    tab_names |-> tab_names,
    error_message |-> error_message,
    filter_text |-> filter_text,
    session_name |-> session_name,
    selected_pane |-> selected_pane,
    selected_agent |-> selected_agent,
    custom_tab_name |-> custom_tab_name,
    requests |-> <<>> ]

\* The Model a handler leaves behind, as the next handler finds it.
Settle(m) == [m EXCEPT !.agent_panes = Tagged(@), !.requests = <<>>]
\* The Model without the slot names.
View(m) == [m EXCEPT !.agent_panes = Untagged(@)]

Commit(m) ==
  /\ permissions_granted' = m.permissions_granted
  /\ permissions_denied' = m.permissions_denied
  /\ agents' = m.agents
  /\ agent_panes' = Untagged(m.agent_panes)
  /\ tab_names' = m.tab_names
  /\ error_message' = m.error_message
  /\ filter_text' = m.filter_text
  /\ session_name' = m.session_name
  /\ selected_pane' = m.selected_pane
  /\ selected_agent' = m.selected_agent
  /\ custom_tab_name' = m.custom_tab_name

\* A call to the host: its name, the tab it names ("" if none) and the pane
\* id it names (None if none).
Request(call, tab, pane) == [call |-> call, tab |-> tab, pane |-> pane]
Issue(m, request) == [m EXCEPT !.requests = Append(@, request)]

\* `model.agent_panes.push(pane)`
Push(m, pane) == [m EXCEPT !.agent_panes = Append(@, pane)]

\* ------------------------------------------------------ Model methods
\* `hay.contains(needle)` for the filter strings the model uses: the empty
\* filter, a whole name, and the letters "c" and "m".
StrContains(hay, needle) ==
  \/ needle = ""
  \/ hay = needle
  \/ needle = "c" /\ hay = "codex"
  \/ needle = "m" /\ hay \in {"maestro:proj", "maestro:workspace"}

\* The number of records the pane list shows under the filter.
ShownLen(m) ==
  LET filter_lower == AsciiLower(m.filter_text)
      Shown(p) == \/ StrContains(AsciiLower(p.agent_name), filter_lower)
                  \/ StrContains(AsciiLower(p.tab_name), filter_lower)
  IN IF filter_lower = "" THEN Len(m.agent_panes)
     ELSE Len(SelectSeq(m.agent_panes, Shown))

\* A clamp that leaves selected_pane alone.
clamp_selections_AgentOnly(m) ==
  LET agent_len == Len(m.agents)
  IN [m EXCEPT !.selected_agent = IF agent_len = 0 THEN 0
                                  ELSE IF @ >= agent_len THEN agent_len - 1 ELSE @]

clamp_selections(m) ==
  LET filter_lower == AsciiLower(m.filter_text)
      Shown(p) == \/ StrContains(AsciiLower(p.agent_name), filter_lower)
                  \/ StrContains(AsciiLower(p.tab_name), filter_lower)
      pane_len == IF filter_lower = "" THEN Len(m.agent_panes)
                  ELSE Len(SelectSeq(m.agent_panes, Shown))
      agent_len == Len(m.agents)
      sp == IF pane_len = 0 THEN 0
            ELSE IF m.selected_pane >= pane_len THEN pane_len - 1
            ELSE m.selected_pane
      sa == IF agent_len = 0 THEN 0
            ELSE IF m.selected_agent >= agent_len THEN agent_len - 1
            ELSE m.selected_agent
  IN [m EXCEPT !.selected_pane = sp, !.selected_agent = sa]

\* move_selection over the pane list (delta is -1 or 1).
move_selection(m, delta) ==
  LET len == ShownLen(m)
      next == m.selected_pane + delta
  IN IF len = 0 THEN m
     ELSE [m EXCEPT !.selected_pane = IF next < 0 THEN 0
                                      ELSE IF next >= len THEN len - 1 ELSE next,
                    !.error_message = ""]

\* A key that edits the filter: the text becomes `text`, the selection
\* goes back to the first row.
edit_filter(m, text) ==
  clamp_selections([m EXCEPT !.filter_text = text, !.selected_pane = 0])

\* ------------------------------------------------- session.rs handlers
handle_permission_result(m, status) ==
  IF status = "Granted"
  THEN [m EXCEPT !.permissions_granted = TRUE, !.permissions_denied = FALSE]
  ELSE [m EXCEPT !.permissions_granted = FALSE, !.permissions_denied = TRUE]

\* `tabs.sort_by_key(|t| t.position)`: a stable insertion sort.
RECURSIVE InsertByPosition(_, _)
InsertByPosition(sorted, t) ==
  IF sorted = <<>> THEN <<t>>
  ELSE IF sorted[Len(sorted)].position <= t.position THEN Append(sorted, t)
  ELSE Append(InsertByPosition(SubSeq(sorted, 1, Len(sorted) - 1), t),
              sorted[Len(sorted)])
\* A sort that leaves the tabs in the order they were listed.
SortByPosition_AsListed(tabs) == tabs
RECURSIVE SortByPosition(_)
SortByPosition(tabs) ==
  IF tabs = <<>> THEN <<>>
  ELSE InsertByPosition(SortByPosition(SubSeq(tabs, 1, Len(tabs) - 1)),
                        tabs[Len(tabs)])
TabNamesOf(tabs) == [i \in DOMAIN tabs |-> tabs[i].name]

\* A retain predicate without the `pane_id.is_some()` disjunct.
RetainAfterTabUpdate_NoId(p, names) ==
  Contains(names, p.tab_name) \/ IsSome(p.pending_tab_index)

\* The retain predicate of apply_tab_update.
RetainAfterTabUpdate(p, names) ==
  IsSome(p.pane_id) \/ Contains(names, p.tab_name) \/ IsSome(p.pending_tab_index)

\* The resolution loop body of apply_tab_update.
ResolvePending(p, names) ==
  IF /\ IsSome(p.pending_tab_index)
     /\ IsSome(Get(names, Unwrap(p.pending_tab_index)))
     /\ (p.tab_name = "" \/ ~Contains(names, p.tab_name))
  THEN [p EXCEPT !.tab_name = Unwrap(Get(names, Unwrap(p.pending_tab_index)))]
  ELSE p

apply_tab_update(m, tabs) ==
  LET names == TabNamesOf(SortByPosition(tabs))
      resolved == [i \in DOMAIN m.agent_panes |-> ResolvePending(m.agent_panes[i], names)]
      Keep(p) == RetainAfterTabUpdate(p, names)
  IN clamp_selections([m EXCEPT !.agent_panes = SelectSeq(resolved, Keep),
                                !.tab_names = names])

\* A pane-closed handler whose retain also drops the pending records.
handle_pane_closed_DropPending(m, pane_id) ==
  LET pid == pane_id.id
      Keep(p) == IsSome(p.pane_id) /\ p.pane_id # Some(pid)
  IN clamp_selections([m EXCEPT !.agent_panes = SelectSeq(@, Keep)])

\* A pane-closed handler that detaches the located records instead of
\* removing them.
handle_pane_closed_Detach(m, pane_id) ==
  LET pid == pane_id.id
      Detach(p) == IF p.pane_id = Some(pid) THEN [p EXCEPT !.pane_id = None] ELSE p
  IN clamp_selections([m EXCEPT !.agent_panes =
                         [i \in DOMAIN m.agent_panes |-> Detach(m.agent_panes[i])]])

\* A pane-closed handler that acts on terminal panes only.
handle_pane_closed_TerminalOnly(m, pane_id) ==
  LET pid == pane_id.id
      Keep(p) == pane_id.kind # "Terminal" \/ p.pane_id # Some(pid)
  IN clamp_selections([m EXCEPT !.agent_panes = SelectSeq(@, Keep)])

handle_pane_closed(m, pane_id) ==
  LET pid == pane_id.id
      Keep(p) == p.pane_id # Some(pid)
  IN clamp_selections([m EXCEPT !.agent_panes = SelectSeq(@, Keep)])

\* A manifest step whose identity match also moves the record to the tab
\* the manifest lists the pane under.
ManifestPane_Retab(m, tab_idx, tab_name_from_idx, pane) ==
  LET i == FindIndex(m.agent_panes, LAMBDA p : p.pane_id = Some(pane.id))
      command_hint == IF IsSome(pane.terminal_command)
                      THEN Unwrap(pane.terminal_command) ELSE pane.title
      agent == find_agent_by_command(m.agents, command_hint)
  IN IF i # 0
     THEN [m EXCEPT !.agent_panes[i].status = StatusOf(pane),
                    !.agent_panes[i].tab_name = tab_name_from_idx]
     ELSE IF ~pane.is_plugin /\ IsSome(agent)
     THEN Push(m, AgentPane(pane.title, tab_name_from_idx,
                            IF tab_name_from_idx = "" THEN Some(tab_idx) ELSE None,
                            Some(pane.id), "", Unwrap(agent).name, StatusOf(pane)))
     ELSE m

\* A manifest step that does not look at the plugin flag of the pane.
ManifestPane_Plugins(m, tab_idx, tab_name_from_idx, pane) ==
  LET i == FindIndex(m.agent_panes, LAMBDA p : p.pane_id = Some(pane.id))
      command_hint == IF IsSome(pane.terminal_command)
                      THEN Unwrap(pane.terminal_command) ELSE pane.title
      agent == find_agent_by_command(m.agents, command_hint)
  IN IF i # 0
     THEN [m EXCEPT !.agent_panes[i].status = StatusOf(pane)]
     ELSE IF IsSome(agent)
     THEN Push(m, AgentPane(pane.title, tab_name_from_idx,
                            IF tab_name_from_idx = "" THEN Some(tab_idx) ELSE None,
                            Some(pane.id), "", Unwrap(agent).name, StatusOf(pane)))
     ELSE m

\* A manifest step that never records the tab index of a new record.
ManifestPane_NoPending(m, tab_idx, tab_name_from_idx, pane) ==
  LET i == FindIndex(m.agent_panes, LAMBDA p : p.pane_id = Some(pane.id))
      command_hint == IF IsSome(pane.terminal_command)
                      THEN Unwrap(pane.terminal_command) ELSE pane.title
      agent == find_agent_by_command(m.agents, command_hint)
  IN IF i # 0
     THEN [m EXCEPT !.agent_panes[i].status = StatusOf(pane)]
     ELSE IF ~pane.is_plugin /\ IsSome(agent)
     THEN Push(m, AgentPane(pane.title, tab_name_from_idx, None,
                            Some(pane.id), "", Unwrap(agent).name, StatusOf(pane)))
     ELSE m

\* One reported pane of apply_pane_update (the body of the inner loop).
ManifestPane(m, tab_idx, tab_name_from_idx, pane) ==
  LET i == FindIndex(m.agent_panes, LAMBDA p : p.pane_id = Some(pane.id))
      title == pane.title
      command_hint == IF IsSome(pane.terminal_command)
                      THEN Unwrap(pane.terminal_command) ELSE title
      agent == find_agent_by_command(m.agents, command_hint)
  IN IF i # 0
     THEN [m EXCEPT !.agent_panes[i].status = StatusOf(pane)]
     ELSE IF ~pane.is_plugin /\ IsSome(agent)
     THEN Push(m, AgentPane(title, tab_name_from_idx,
                            IF tab_name_from_idx = "" THEN Some(tab_idx) ELSE None,
                            Some(pane.id), "", Unwrap(agent).name, StatusOf(pane)))
     ELSE m

RECURSIVE ManifestPanes(_, _, _, _)
ManifestPanes(m, tab_idx, tab_name_from_idx, pane_list) ==
  IF pane_list = <<>> THEN m
  ELSE ManifestPanes(ManifestPane(m, tab_idx, tab_name_from_idx, Head(pane_list)),
                     tab_idx, tab_name_from_idx, Tail(pane_list))

\* `model.tab_names.get(tab_idx).cloned().unwrap_or_default()`
TabNameFromIdx(names, tab_idx) ==
  IF IsSome(Get(names, tab_idx)) THEN Unwrap(Get(names, tab_idx)) ELSE ""

\* A PaneManifest is the sequence of its (tab index, pane list) entries in
\* ascending key order, as the BTreeMap iterates them.
RECURSIVE ManifestTabs(_, _)
ManifestTabs(m, entries) ==
  IF entries = <<>> THEN m
  ELSE LET e == Head(entries)
       IN ManifestTabs(ManifestPanes(m, e.tab_idx,
                                     TabNameFromIdx(m.tab_names, e.tab_idx), e.panes),
                       Tail(entries))

apply_pane_update(m, update) == clamp_selections(ManifestTabs(m, update))

\* A `find` that matches the title of any record, pending or not.
OpenedMatches_AnyTitle(p, pane_id, title) ==
  p.pane_id = Some(pane_id) \/ p.pane_title = title

\* The `find` of handle_command_pane_opened.
OpenedMatches(p, pane_id, title) ==
  p.pane_id = Some(pane_id) \/ (p.pane_id = None /\ p.pane_title = title)

\* A confirmation handler that updates a located record and never adds one.
handle_command_pane_opened_FindOnly(m, pane_id, ctx) ==
  LET title == IF IsSome(ctx.pane_title) THEN Unwrap(ctx.pane_title)
               ELSE PaneFallbackTitle(pane_id)
      i == FindIndex(m.agent_panes, LAMBDA p : OpenedMatches(p, pane_id, title))
  IN clamp_selections(
       IF i # 0
       THEN [m EXCEPT !.agent_panes[i].pane_id = Some(pane_id),
                      !.agent_panes[i].pane_title = title,
                      !.agent_panes[i].status = Running]
       ELSE m)

\* ctx is the echoed context map: each key is an Option<String>.
handle_command_pane_opened(m, pane_id, ctx) ==
  LET title == IF IsSome(ctx.pane_title) THEN Unwrap(ctx.pane_title)
               ELSE PaneFallbackTitle(pane_id)
      workspace_path == IF IsSome(ctx.cwd) THEN Unwrap(ctx.cwd) ELSE ""
      agent_name == IF IsSome(ctx.agent) THEN Unwrap(ctx.agent) ELSE ""
      first_tab == First(m.tab_names)
      ctx_tab_name == ctx.tab_name
      i == FindIndex(m.agent_panes, LAMBDA p : OpenedMatches(p, pane_id, title))
      existing == m.agent_panes[i]
      e1 == [existing EXCEPT !.pane_id = Some(pane_id), !.pane_title = title]
      e2 == IF e1.tab_name = ""
            THEN IF IsSome(ctx_tab_name)
                 THEN [e1 EXCEPT !.tab_name = Unwrap(ctx_tab_name),
                                 !.pending_tab_index = None]
                 ELSE IF IsSome(first_tab)
                 THEN [e1 EXCEPT !.tab_name = Unwrap(first_tab),
                                 !.pending_tab_index = None]
                 ELSE e1
            ELSE e1
      e3 == IF workspace_path # "" THEN [e2 EXCEPT !.workspace_path = workspace_path] ELSE e2
      e4 == IF agent_name # "" THEN [e3 EXCEPT !.agent_name = agent_name] ELSE e3
      e5 == [e4 EXCEPT !.status = Running]
      tab_name == IF IsSome(ctx_tab_name) THEN Unwrap(ctx_tab_name)
                  ELSE IF IsSome(first_tab) THEN Unwrap(first_tab) ELSE ""
  IN clamp_selections(
       IF i # 0
       THEN [m EXCEPT !.agent_panes[i] = e5]
       ELSE Push(m, AgentPane(title, tab_name, None, Some(pane_id),
                              workspace_path, agent_name, Running)))

\* The `find` of handle_command_pane_exited and handle_command_pane_rerun.
NotifiedMatches(p, pane_id, title) ==
  p.pane_id = Some(pane_id) \/ p.pane_title = title

\* A notification handler that drops the located record when it has exited.
SetNotifiedStatus_Drop(m, pane_id, ctx, status) ==
  LET title == IF IsSome(ctx.pane_title) THEN Unwrap(ctx.pane_title)
               ELSE PaneFallbackTitle(pane_id)
      i == FindIndex(m.agent_panes, LAMBDA p : NotifiedMatches(p, pane_id, title))
      Keep(p) == p.uid # m.agent_panes[i].uid
  IN clamp_selections(
       IF i = 0 THEN m
       ELSE IF status = Running THEN [m EXCEPT !.agent_panes[i].status = status]
       ELSE [m EXCEPT !.agent_panes = SelectSeq(@, Keep)])

\* A notification handler that adopts a pane no record matches.
SetNotifiedStatus_Adopt(m, pane_id, ctx, status) ==
  LET title == IF IsSome(ctx.pane_title) THEN Unwrap(ctx.pane_title)
               ELSE PaneFallbackTitle(pane_id)
      i == FindIndex(m.agent_panes, LAMBDA p : NotifiedMatches(p, pane_id, title))
  IN clamp_selections(
       IF i # 0 THEN [m EXCEPT !.agent_panes[i].status = status]
       ELSE Push(m, AgentPane(title, "", None, Some(pane_id), "", "", status)))

SetNotifiedStatus(m, pane_id, ctx, status) ==
  LET title == IF IsSome(ctx.pane_title) THEN Unwrap(ctx.pane_title)
               ELSE PaneFallbackTitle(pane_id)
      i == FindIndex(m.agent_panes, LAMBDA p : NotifiedMatches(p, pane_id, title))
  IN clamp_selections(IF i # 0 THEN [m EXCEPT !.agent_panes[i].status = status] ELSE m)

handle_command_pane_exited(m, pane_id, exit_status, ctx) ==
  SetNotifiedStatus(m, pane_id, ctx, Exited(exit_status))

handle_command_pane_rerun(m, pane_id, ctx) ==
  SetNotifiedStatus(m, pane_id, ctx, Running)

\* `tab_lookup`: BTreeMap position -> name built by inserting the tabs in
\* listed order (a later tab of the same position replaces an earlier one),
\* then `.get(tab_idx).cloned().unwrap_or_default()`.
TabLookup(tabs, tab_idx) ==
  LET hits == {i \in DOMAIN tabs : tabs[i].position = tab_idx}
  IN IF hits = {} THEN ""
     ELSE tabs[CHOOSE i \in hits : \A j \in hits : j <= i].name

\* An `unmatched_in_tab` that takes the pending records of every tab.
UnmatchedInTab_AnyTab(panes, tab_name_from_idx) ==
  IF tab_name_from_idx # ""
  THEN SelectSeq([i \in DOMAIN panes |-> i], LAMBDA i : panes[i].pane_id = None)
  ELSE <<>>

\* `unmatched_in_tab`: 1-based positions of the pending records of the tab.
UnmatchedInTab(panes, tab_name_from_idx) ==
  IF tab_name_from_idx # ""
  THEN SelectSeq([i \in DOMAIN panes |-> i],
                 LAMBDA i : panes[i].pane_id = None
                            /\ panes[i].tab_name = tab_name_from_idx)
  ELSE <<>>

\* A rebuild step whose fallback takes the first pending record of the tab.
RebuildPane_Fifo(acc, tab_idx, tab_name_from_idx, pane) ==
  LET m == acc.m
      i == FindIndex(m.agent_panes, LAMBDA p : p.pane_id = Some(pane.id))
      n == Len(acc.unmatched)
      unmatched_idx == acc.unmatched[1]
      command_hint == IF IsSome(pane.terminal_command)
                      THEN Unwrap(pane.terminal_command) ELSE pane.title
      agent == find_agent_by_command(m.agents, command_hint)
  IN IF i # 0
     THEN [acc EXCEPT !.m.agent_panes[i].status = StatusOf(pane)]
     ELSE IF n > 0
     THEN [acc EXCEPT !.m.agent_panes[unmatched_idx].pane_id = Some(pane.id),
                      !.m.agent_panes[unmatched_idx].status = StatusOf(pane),
                      !.unmatched = SubSeq(@, 2, n)]
     ELSE IF ~pane.is_plugin /\ IsSome(agent)
     THEN [acc EXCEPT !.m =
             Push(m, AgentPane(pane.title, tab_name_from_idx,
                               IF tab_name_from_idx = "" THEN Some(tab_idx) ELSE None,
                               Some(pane.id), "", Unwrap(agent).name, StatusOf(pane)))]
     ELSE acc

\* One reported pane of rebuild_from_session_infos; acc is the Model and
\* what is left of unmatched_in_tab.
RebuildPane(acc, tab_idx, tab_name_from_idx, pane) ==
  LET m == acc.m
      i == FindIndex(m.agent_panes, LAMBDA p : p.pane_id = Some(pane.id))
      n == Len(acc.unmatched)
      unmatched_idx == acc.unmatched[n]
      command_hint == IF IsSome(pane.terminal_command)
                      THEN Unwrap(pane.terminal_command) ELSE pane.title
      agent == find_agent_by_command(m.agents, command_hint)
  IN IF i # 0
     THEN [acc EXCEPT !.m.agent_panes[i].status = StatusOf(pane)]
     ELSE IF n > 0
     THEN [acc EXCEPT !.m.agent_panes[unmatched_idx].pane_id = Some(pane.id),
                      !.m.agent_panes[unmatched_idx].status = StatusOf(pane),
                      !.unmatched = SubSeq(@, 1, n - 1)]
     ELSE IF ~pane.is_plugin /\ IsSome(agent)
     THEN [acc EXCEPT !.m =
             Push(m, AgentPane(pane.title, tab_name_from_idx,
                               IF tab_name_from_idx = "" THEN Some(tab_idx) ELSE None,
                               Some(pane.id), "", Unwrap(agent).name, StatusOf(pane)))]
     ELSE acc

RECURSIVE RebuildPanes(_, _, _, _)
RebuildPanes(acc, tab_idx, tab_name_from_idx, pane_list) ==
  IF pane_list = <<>> THEN acc
  ELSE RebuildPanes(RebuildPane(acc, tab_idx, tab_name_from_idx, Head(pane_list)),
                    tab_idx, tab_name_from_idx, Tail(pane_list))

RECURSIVE RebuildTabs(_, _, _)
RebuildTabs(m, tabs, entries) ==
  IF entries = <<>> THEN m
  ELSE LET e == Head(entries)
           tab_name_from_idx == TabLookup(tabs, e.tab_idx)
           acc == [m |-> m, unmatched |-> UnmatchedInTab(m.agent_panes, tab_name_from_idx)]
       IN RebuildTabs(RebuildPanes(acc, e.tab_idx, tab_name_from_idx, e.panes).m,
                      tabs, Tail(entries))

\* rebuild_from_session_infos without the skip of the sessions that are
\* not the pinned one.
RebuildSession_AnySession(m, session) ==
  RebuildTabs([m EXCEPT !.session_name = IF IsSome(@) THEN @ ELSE Some(session.name)],
              session.tabs, session.panes)

\* One session of rebuild_from_session_infos: skipped unless it is the
\* pinned one; the first session seen while nothing is pinned gets pinned.
RebuildSession(m, session) ==
  IF IsSome(m.session_name) /\ session.name # Unwrap(m.session_name)
  THEN m
  ELSE RebuildTabs([m EXCEPT !.session_name = Some(session.name)],
                   session.tabs, session.panes)

RECURSIVE RebuildSessions(_, _)
RebuildSessions(m, session_infos) ==
  IF session_infos = <<>> THEN m
  ELSE RebuildSessions(RebuildSession(m, Head(session_infos)), Tail(session_infos))

rebuild_from_session_infos(m, session_infos) ==
  clamp_selections(RebuildSessions(m, session_infos))

\* handle_session_update that re-pins without clearing the table.
handle_session_update_NoClear(m, sessions) ==
  LET c == FindIndex(sessions, LAMBDA s : s.is_current_session)
      m1 == IF c = 0 THEN m ELSE [m EXCEPT !.session_name = Some(sessions[c].name)]
      k == IF IsSome(m1.session_name)
           THEN FindIndex(sessions, LAMBDA s : s.name = Unwrap(m1.session_name))
           ELSE 0
      m2 == IF k = 0 THEN m1
            ELSE [m1 EXCEPT !.tab_names = TabNamesOf(SortByPosition(sessions[k].tabs))]
  IN rebuild_from_session_infos(m2, sessions)

\* A snapshot handler that installs the roster through the roster update,
\* garbage collection included.
handle_session_update_Retain(m, sessions) ==
  LET c == FindIndex(sessions, LAMBDA s : s.is_current_session)
      m1 == IF c = 0 THEN m
            ELSE [m EXCEPT
                    !.agent_panes = IF IsSome(m.session_name)
                                       /\ Unwrap(m.session_name) # sessions[c].name
                                    THEN <<>> ELSE @,
                    !.session_name = Some(sessions[c].name)]
      k == IF IsSome(m1.session_name)
           THEN FindIndex(sessions, LAMBDA s : s.name = Unwrap(m1.session_name))
           ELSE 0
      m2 == IF k = 0 THEN m1 ELSE apply_tab_update(m1, sessions[k].tabs)
  IN rebuild_from_session_infos(m2, sessions)

handle_session_update(m, sessions) ==
  LET c == FindIndex(sessions, LAMBDA s : s.is_current_session)
      m1 == IF c = 0 THEN m
            ELSE [m EXCEPT
                    !.agent_panes = IF IsSome(m.session_name)
                                       /\ Unwrap(m.session_name) # sessions[c].name
                                    THEN <<>> ELSE @,
                    !.session_name = Some(sessions[c].name)]
      k == IF IsSome(m1.session_name)
           THEN FindIndex(sessions, LAMBDA s : s.name = Unwrap(m1.session_name))
           ELSE 0
      m2 == IF k = 0 THEN m1
            ELSE [m1 EXCEPT !.tab_names = TabNamesOf(SortByPosition(sessions[k].tabs))]
  IN rebuild_from_session_infos(m2, sessions)

\* --------------------------------------------------- panes.rs operations
ErrPermissionsNotGranted == "Permissions not granted"
ErrAgentNotFound(name) == "Agent not found: " \o name
ErrNoAgentPanes == "No agent panes"
ErrPaneIdUnavailable == "Pane ID not available yet"

TabChoiceExisting(name) == <<"Existing", name>>
TabChoiceNew == <<"New">>

\* `s.trim().is_empty()`; no string of the model has surrounding blanks.
IsBlank(s) == s = ""

\* uuid is the value Uuid::new_v4() returns for this call.
\* A spawn that creates the destination tab before it looks the agent up.
spawn_agent_pane_TabFirst(m, workspace_path, agent_name, tab_choice, uuid) ==
  LET a == FindIndex(m.agents, LAMBDA ag : ag.name = agent_name)
      workspace_label == workspace_basename(workspace_path)
      title_label == IF workspace_label = "" THEN agent_name ELSE workspace_label
      title == title_label \o ":" \o uuid
      tab_name == IF tab_choice[1] = "Existing" THEN tab_choice[2]
                  ELSE IF IsSome(m.custom_tab_name) /\ ~IsBlank(Unwrap(m.custom_tab_name))
                  THEN Unwrap(m.custom_tab_name)
                  ELSE default_tab_name(workspace_path)
      m1 == IF tab_choice[1] = "New" /\ ~Contains(m.tab_names, tab_name)
            THEN [m EXCEPT !.tab_names = Append(@, tab_name)]
            ELSE m
      m1a == IF tab_choice[1] = "New"
             THEN Issue(m1, Request("new_tab", tab_name, None)) ELSE m1
      m1b == Issue(Issue(m1a, Request("go_to_tab_name", tab_name, None)),
                   Request("open_command_pane", tab_name, None))
      m2 == Push(m1b, AgentPane(title, tab_name, None, None,
                                workspace_path, agent_name, Running))
  IN IF ~m.permissions_granted
     THEN [m EXCEPT !.error_message = ErrPermissionsNotGranted]
     ELSE IF a = 0
     THEN [m1a EXCEPT !.error_message = ErrAgentNotFound(agent_name)]
     ELSE [m2 EXCEPT !.error_message = "", !.custom_tab_name = None]

\* A spawn that leaves the title of the pending record empty.
spawn_agent_pane_NoTitle(m, workspace_path, agent_name, tab_choice, uuid) ==
  LET a == FindIndex(m.agents, LAMBDA ag : ag.name = agent_name)
      tab_name == IF tab_choice[1] = "Existing" THEN tab_choice[2]
                  ELSE IF IsSome(m.custom_tab_name) /\ ~IsBlank(Unwrap(m.custom_tab_name))
                  THEN Unwrap(m.custom_tab_name)
                  ELSE default_tab_name(workspace_path)
      m1 == IF tab_choice[1] = "New" /\ ~Contains(m.tab_names, tab_name)
            THEN [m EXCEPT !.tab_names = Append(@, tab_name)]
            ELSE m
      m2 == Push(m1, AgentPane("", tab_name, None, None,
                               workspace_path, agent_name, Running))
  IN IF ~m.permissions_granted
     THEN [m EXCEPT !.error_message = ErrPermissionsNotGranted]
     ELSE IF a = 0
     THEN [m EXCEPT !.error_message = ErrAgentNotFound(agent_name)]
     ELSE [m2 EXCEPT !.error_message = "", !.custom_tab_name = None]

spawn_agent_pane(m, workspace_path, agent_name, tab_choice, uuid) ==
  LET a == FindIndex(m.agents, LAMBDA ag : ag.name = agent_name)
      workspace_label == workspace_basename(workspace_path)
      title_label == IF workspace_label = "" THEN agent_name ELSE workspace_label
      title == title_label \o ":" \o uuid
      tab_name == IF tab_choice[1] = "Existing" THEN tab_choice[2]
                  ELSE IF IsSome(m.custom_tab_name) /\ ~IsBlank(Unwrap(m.custom_tab_name))
                  THEN Unwrap(m.custom_tab_name)
                  ELSE default_tab_name(workspace_path)
      tab_target == tab_name
      m1 == IF tab_choice[1] = "New" /\ ~Contains(m.tab_names, tab_name)
            THEN [m EXCEPT !.tab_names = Append(@, tab_name)]
            ELSE m
      m1a == IF tab_choice[1] = "New"
             THEN Issue(m1, Request("new_tab", tab_name, None)) ELSE m1
      m1b == Issue(Issue(m1a, Request("go_to_tab_name", tab_target, None)),
                   Request("open_command_pane", tab_target, None))
      m2 == Push(m1b, AgentPane(title, tab_target, None, None,
                                workspace_path, agent_name, Running))
  IN IF ~m.permissions_granted
     THEN [m EXCEPT !.error_message = ErrPermissionsNotGranted]
     ELSE IF a = 0
     THEN [m EXCEPT !.error_message = ErrAgentNotFound(agent_name)]
     ELSE [m2 EXCEPT !.error_message = "", !.custom_tab_name = None]

focus_selected(m, selected_idx) ==
  IF ~m.permissions_granted
  THEN [m EXCEPT !.error_message = ErrPermissionsNotGranted]
  ELSE IF selected_idx >= Len(m.agent_panes)
  THEN [m EXCEPT !.error_message = ErrNoAgentPanes]
  ELSE LET pane == m.agent_panes[selected_idx + 1]
           m1 == Issue(m, Request("go_to_tab_name", pane.tab_name, None))
       IN IF IsSome(pane.pane_id)
          THEN [Issue(m1, Request("focus_terminal_pane", "", pane.pane_id))
                  EXCEPT !.error_message = ""]
          ELSE [m1 EXCEPT !.error_message = ErrPaneIdUnavailable]

\* A kill that does not look at the permissions.
kill_selected_Unchecked(m, selected_idx) ==
  IF selected_idx >= Len(m.agent_panes)
  THEN [m EXCEPT !.error_message = ErrNoAgentPanes]
  ELSE LET pane == m.agent_panes[selected_idx + 1]
           Keep(p) == p.pane_id # pane.pane_id
       IN IF IsSome(pane.pane_id)
          THEN clamp_selections(
                 [Issue(m, Request("close_terminal_pane", "", pane.pane_id))
                    EXCEPT !.agent_panes = SelectSeq(@, Keep), !.error_message = ""])
          ELSE [m EXCEPT !.error_message = ErrPaneIdUnavailable]

\* A kill that asks the host to close the pane and leaves the removal to the
\* pane-closed notification.
kill_selected_Deferred(m, selected_idx) ==
  IF ~m.permissions_granted
  THEN [m EXCEPT !.error_message = ErrPermissionsNotGranted]
  ELSE IF selected_idx >= Len(m.agent_panes)
  THEN [m EXCEPT !.error_message = ErrNoAgentPanes]
  ELSE LET pane == m.agent_panes[selected_idx + 1]
       IN IF IsSome(pane.pane_id)
          THEN clamp_selections(
                 [Issue(m, Request("close_terminal_pane", "", pane.pane_id))
                    EXCEPT !.error_message = ""])
          ELSE [m EXCEPT !.error_message = ErrPaneIdUnavailable]

kill_selected(m, selected_idx) ==
  IF ~m.permissions_granted
  THEN [m EXCEPT !.error_message = ErrPermissionsNotGranted]
  ELSE IF selected_idx >= Len(m.agent_panes)
  THEN [m EXCEPT !.error_message = ErrNoAgentPanes]
  ELSE LET pane == m.agent_panes[selected_idx + 1]
           Keep(p) == p.pane_id # pane.pane_id
       IN IF IsSome(pane.pane_id)
          THEN clamp_selections(
                 [Issue(m, Request("close_terminal_pane", "", pane.pane_id))
                    EXCEPT !.agent_panes = SelectSeq(@, Keep), !.error_message = ""])
          ELSE [m EXCEPT !.error_message = ErrPaneIdUnavailable]

\* ------------------------------------------------------- event payloads
PaneIds == 1..MaxPaneId
\* Tab names the host uses; "maestro:proj" is the tab spawn opens for the
\* workspace.
RosterNames == {"a", "maestro:proj"}
TabInfo(position, name) == [position |-> position, name |-> name]
\* Tab lists of at most MaxTabs tabs at positions 0..n-1, listed in any order.
TabLists ==
  UNION {{tabs \in [1..n -> [position : 0..(n - 1), name : RosterNames]] :
            \A i, j \in 1..n : i # j => tabs[i].position # tabs[j].position}
         : n \in 0..MaxTabs}
\* Tab indices a manifest may name.
TabIndices == 0..(MaxTabs - 1)

StoreTitles == {agent_panes[i].pane_title : i \in DOMAIN agent_panes}
PendingTitles ==
  {agent_panes[i].pane_title : i \in {j \in DOMAIN agent_panes : agent_panes[j].pane_id = None}}

\* The exit code the model's panes exit with.
ExitStatuses == {Some(1)}

PaneInfo(id, is_plugin, title, cmd, exited, exit_status) ==
  [ id |-> id, is_plugin |-> is_plugin, title |-> title,
    terminal_command |-> cmd, exited |-> exited, exit_status |-> exit_status ]

\* What the host may show for a running pane: (title, terminal_command, is_plugin).
PaneFaces ==
  { <<"bash", None, FALSE>>,                 \* a shell, not an agent
    <<"Codex - proj", None, FALSE>>,         \* an agent, told by its title
    <<"Codex - proj", Some("CX"), FALSE>>,   \* an agent, told by its command
    <<"Codex - proj", None, TRUE>> }         \* a plugin pane
  \cup {<<t, Some("CX"), FALSE>> : t \in PendingTitles}  \* title not yet replaced

RunningPaneInfos ==
  {PaneInfo(id, f[3], f[1], f[2], FALSE, None) : id \in PaneIds, f \in PaneFaces}
ExitedPaneInfos ==
  {PaneInfo(id, FALSE, "Codex - proj", Some("CX"), TRUE, x) : id \in PaneIds, x \in ExitStatuses}
PaneInfos == RunningPaneInfos \cup ExitedPaneInfos

ManifestEntry(tab_idx, panes) == [tab_idx |-> tab_idx, panes |-> panes]
\* Two running panes of different ids with the same face: both shells or
\* both agents told by their command.
PanePairs ==
  {l \in RunningPaneInfos \X RunningPaneInfos :
     /\ l[1].id # l[2].id
     /\ ~l[1].is_plugin /\ l[1].title \notin PendingTitles
     /\ (l[1].title = "bash" \/ IsSome(l[1].terminal_command))
     /\ [l[1] EXCEPT !.id = l[2].id] = l[2]}
\* A manifest names one tab with one pane, or two tabs with a pane each.
Manifests ==
  {<<ManifestEntry(t, <<p>>)>> : t \in TabIndices, p \in PaneInfos}
  \cup {<<ManifestEntry(0, <<l[1]>>), ManifestEntry(MaxTabs, <<l[2]>>)>> : l \in PanePairs}

Ctx(title, cwd, agent, tab) ==
  [pane_title |-> title, cwd |-> cwd, agent |-> agent, tab_name |-> tab]
EmptyCtx == Ctx(None, None, None, None)
\* Context maps as spawn builds them, for a title of the table.
Ctxs ==
  {Ctx(Some(t), Some("proj"), Some("codex"), Some(tab)) :
          t \in StoreTitles, tab \in RosterNames}
\* Exited and rerun read the title only.
TitleCtxs == {EmptyCtx} \cup {Ctx(Some(t), None, None, None) : t \in StoreTitles}

\* "s1" is the session the plugin runs in, "s2" another session of the host.
OwnSession == "s1"
OtherSession == "s2"
SessionNames == {OwnSession, OtherSession}
SessionInfo(name, tabs, panes, is_current) ==
  [name |-> name, tabs |-> tabs, panes |-> panes, is_current_session |-> is_current]
\* The tabs of a listed session, out of order.
SessionTabs == <<TabInfo(1, "maestro:proj"), TabInfo(0, "a")>>
SessionTabIndices == {SessionTabs[i].position : i \in DOMAIN SessionTabs}
\* The panes a snapshot lists for the plugin's session: none, one pane in
\* one of the tabs, or two panes in the first tab.
SessionPaneInfos == {p \in PaneInfos : p.title = "Codex - proj" => IsSome(p.terminal_command) \/ p.is_plugin}
SessionManifests ==
  {<<>>}
  \cup {<<ManifestEntry(t, <<p>>)>> : t \in SessionTabIndices, p \in SessionPaneInfos}
  \cup {<<ManifestEntry(0, l)>> : l \in PanePairs}
\* The panes a snapshot lists for the other session.
OtherManifests ==
  {<<>>, <<ManifestEntry(0, <<PaneInfo(1, FALSE, "Codex - proj", Some("CX"), FALSE, None)>>)>>}
\* The snapshots the host sends while the plugin's session stays the
\* current one: that session alone (flagged current or not), or after
\* another session that has a pane of its own.
Snapshots ==
  {<<SessionInfo(OwnSession, SessionTabs, panes, TRUE)>> : panes \in SessionManifests}
  \cup {<<SessionInfo(OwnSession, SessionTabs, <<>>, FALSE)>>}
  \cup {<<SessionInfo(OtherSession, <<TabInfo(0, "a")>>, panes, FALSE),
          SessionInfo(OwnSession, SessionTabs, <<>>, TRUE)>> : panes \in OtherManifests}

Workspaces == {"/host/proj"}
TabChoices == {TabChoiceNew} \cup {TabChoiceExisting(n) : n \in RosterNames}
\* Uuid::new_v4(): a value no reserved title of the table carries (the
\* first such of the generator's values).
TitleLabels == {workspace_basename(w) : w \in Workspaces}
UuidInUse(k) == \E l \in TitleLabels : (l \o ":" \o Uuid(k)) \in StoreTitles
NewUuid == Uuid(CHOOSE k \in 1..(Len(agent_panes) + 1) :
                  ~UuidInUse(k) /\ \A j \in 1..(k - 1) : UuidInUse(j))

\* ---------------------------------------------------------------- actions
Init ==
  /\ permissions_granted = FALSE
  /\ permissions_denied = FALSE
  /\ agents = Catalog
  /\ agent_panes = <<>>
  /\ tab_names = <<>>
  /\ error_message = ""
  /\ filter_text = ""
  /\ session_name = None
  /\ selected_pane = 0
  /\ selected_agent = 0
  /\ custom_tab_name = None

\* A handler's result becomes the next state; the table never outgrows MaxPanes.
Step(m) == Len(m.agent_panes) <= MaxPanes /\ Commit(m)

\* The host answers once the permission request made in load().
PermissionRequestResult ==
  /\ ~permissions_granted /\ ~permissions_denied
  /\ \E status \in {"Granted", "Denied"} : Step(handle_permission_result(St, status))

\* The host delivers the application-state events to a plugin that holds
\* ReadApplicationState; the handlers themselves do not read the flags.
TabUpdate ==
  permissions_granted /\ \E tabs \in TabLists : Step(apply_tab_update(St, tabs))
PaneUpdate ==
  permissions_granted /\ \E update \in Manifests : Step(apply_pane_update(St, update))
SessionUpdate ==
  permissions_granted /\ \E sessions \in Snapshots : Step(handle_session_update(St, sessions))
CommandPaneOpened ==
  /\ permissions_granted
  /\ \E pane_id \in PaneIds, ctx \in Ctxs : Step(handle_command_pane_opened(St, pane_id, ctx))
CommandPaneExited ==
  /\ permissions_granted
  /\ \E pane_id \in PaneIds, exit_status \in ExitStatuses, ctx \in TitleCtxs :
       Step(handle_command_pane_exited(St, pane_id, exit_status, ctx))
CommandPaneReRun ==
  /\ permissions_granted
  /\ \E pane_id \in PaneIds, ctx \in TitleCtxs :
       Step(handle_command_pane_rerun(St, pane_id, ctx))
PaneClosed ==
  /\ permissions_granted
  /\ \E kind \in {"Terminal", "Plugin"}, id \in PaneIds :
       Step(handle_pane_closed(St, [kind |-> kind, id |-> id]))

\* The calls of the UI that go through: a spawn of a catalog agent and a
\* kill or focus of a record that has its pane id, with permissions granted.
Spawn ==
  /\ permissions_granted
  /\ \E workspace_path \in Workspaces, tab_choice \in TabChoices,
        a \in DOMAIN agents :
       Step(spawn_agent_pane(St, workspace_path, agents[a].name, tab_choice, NewUuid))
Kill ==
  /\ permissions_granted
  /\ \E i \in DOMAIN agent_panes :
       IsSome(agent_panes[i].pane_id) /\ Step(kill_selected(St, i - 1))
Focus ==
  /\ permissions_granted
  /\ \E i \in DOMAIN agent_panes :
       IsSome(agent_panes[i].pane_id) /\ Step(focus_selected(St, i - 1))

Next ==
  \/ PermissionRequestResult
  \/ TabUpdate
  \/ PaneUpdate
  \/ SessionUpdate
  \/ CommandPaneOpened
  \/ CommandPaneExited
  \/ CommandPaneReRun
  \/ PaneClosed
  \/ Spawn
  \/ Kill
  \/ Focus

Spec == Init /\ [][Next]_vars

\* The context map spawn_agent_pane hands to open_command_pane, which the
\* host echoes in the confirmation of that pane.
SpawnCtx(m, workspace_path, agent_name, tab_choice, uuid) ==
  LET workspace_label == workspace_basename(workspace_path)
      title_label == IF workspace_label = "" THEN agent_name ELSE workspace_label
      tab_target == IF tab_choice[1] = "Existing" THEN tab_choice[2]
                    ELSE IF IsSome(m.custom_tab_name) /\ ~IsBlank(Unwrap(m.custom_tab_name))
                    THEN Unwrap(m.custom_tab_name)
                    ELSE default_tab_name(workspace_path)
  IN Ctx(Some(title_label \o ":" \o uuid), resolve_workspace_path(workspace_path),
         Some(agent_name), Some(tab_target))

\* ------------------------------------------- events the claims range over
\* The claims about one handler quantify over every payload below, applied
\* to every reachable Model; the payloads Next delivers are among them.
AnyTabLists == TabLists \cup {SessionTabs, <<TabInfo(0, "a"), TabInfo(0, "maestro:proj")>>}
AnyManifests ==
  Manifests \cup {<<ManifestEntry(t, <<p>>)>> : t \in SessionTabIndices, p \in PaneInfos}
AnyCtxs ==
  Ctxs \cup {EmptyCtx}
       \cup {Ctx(Some(t), None, None, tab) :
               t \in StoreTitles \cup {"proj:u0"}, tab \in {None, Some("a")}}
AnyTitleCtxs == TitleCtxs \cup {Ctx(Some("proj:u0"), None, None, None)}
AnySnapshots ==
  Snapshots
  \cup {<<SessionInfo(n, SessionTabs, panes, cur)>> :
          n \in SessionNames, panes \in OtherManifests, cur \in BOOLEAN}
  \cup {<<SessionInfo(n, <<TabInfo(0, "a")>>, panes, cur),
          SessionInfo(o, SessionTabs, <<>>, FALSE)>> :
          n \in SessionNames, o \in SessionNames, panes \in OtherManifests, cur \in BOOLEAN}

HostEvents ==
  {[kind |-> "TabUpdate", tabs |-> t] : t \in AnyTabLists}
  \cup {[kind |-> "PaneUpdate", update |-> u] : u \in AnyManifests}
  \cup {[kind |-> "SessionUpdate", sessions |-> x] : x \in AnySnapshots}
  \cup {[kind |-> "CommandPaneOpened", pane_id |-> n, ctx |-> c] : n \in PaneIds, c \in AnyCtxs}
  \cup {[kind |-> "CommandPaneExited", pane_id |-> n, exit_status |-> x, ctx |-> c] :
          n \in PaneIds, x \in ExitStatuses \cup {None}, c \in AnyTitleCtxs}
  \cup {[kind |-> "CommandPaneReRun", pane_id |-> n, ctx |-> c] : n \in PaneIds, c \in AnyTitleCtxs}
  \cup {[kind |-> "PaneClosed", pane_id |-> [kind |-> k, id |-> n]] :
          k \in {"Terminal", "Plugin"}, n \in PaneIds}

\* Plugin::update: the handler of each event kind.
Update(m, e) ==
  CASE e.kind = "TabUpdate" -> apply_tab_update(m, e.tabs)
    [] e.kind = "PaneUpdate" -> apply_pane_update(m, e.update)
    [] e.kind = "SessionUpdate" -> handle_session_update(m, e.sessions)
    [] e.kind = "CommandPaneOpened" -> handle_command_pane_opened(m, e.pane_id, e.ctx)
    [] e.kind = "CommandPaneExited" ->
         handle_command_pane_exited(m, e.pane_id, e.exit_status, e.ctx)
    [] e.kind = "CommandPaneReRun" -> handle_command_pane_rerun(m, e.pane_id, e.ctx)
    [] e.kind = "PaneClosed" -> handle_pane_closed(m, e.pane_id)

\* The calls of the UI, with every argument.
UiCalls ==
  {[kind |-> "spawn", workspace_path |-> w, agent_name |-> a, tab_choice |-> tc] :
     w \in Workspaces \cup {""}, a \in {"codex", "nope"}, tc \in TabChoices}
  \cup {[kind |-> k, selected_idx |-> i] : k \in {"kill", "focus"}, i \in 0..Len(agent_panes)}
Call(m, c) ==
  CASE c.kind = "spawn" ->
         spawn_agent_pane(m, c.workspace_path, c.agent_name, c.tab_choice, NewUuid)
    [] c.kind = "kill" -> kill_selected(m, c.selected_idx)
    [] c.kind = "focus" -> focus_selected(m, c.selected_idx)

\* The record of m that was in slot u when the handler was entered.
HasSlot(m, u) == \E j \in DOMAIN m.agent_panes : m.agent_panes[j].uid = u
Slot(m, u) == m.agent_panes[CHOOSE j \in DOMAIN m.agent_panes : m.agent_panes[j].uid = u]
\* The pane ids a manifest reports.
ReportedIds(update) ==
  UNION {{update[k].panes[j].id : j \in DOMAIN update[k].panes} : k \in DOMAIN update}

\* ------------------------------------------------------------------ claims

\* C1: no two records of the table carry the same non-None host pane id.
C1_NoDuplicateIdentity ==
  \A i, j \in DOMAIN agent_panes :
    (i # j /\ IsSome(agent_panes[i].pane_id)) => agent_panes[i].pane_id # agent_panes[j].pane_id

\* C3: after a tab-roster update a record remains in the table if and only
\* if it has a host pane id, or a pending tab index, or its tab name is a
\* name of the new roster.
C3_GarbageCollection ==
  \A tabs \in AnyTabLists :
    LET after == apply_tab_update(St, tabs)
        names == {tabs[k].name : k \in DOMAIN tabs}
    IN /\ \A i \in DOMAIN agent_panes :
            HasSlot(after, i) <=>
              \/ IsSome(agent_panes[i].pane_id)
              \/ IsSome(agent_panes[i].pending_tab_index)
              \/ agent_panes[i].tab_name \in names
       /\ \A j \in DOMAIN after.agent_panes : after.agent_panes[j].uid # 0
\* C3 witness: a pending record without a pending tab index whose tab is not
\* in the new roster, which the roster update drops.
C3_Witness ==
  \E tabs \in TabLists, i \in DOMAIN agent_panes :
    /\ agent_panes[i].pane_id = None
    /\ agent_panes[i].pending_tab_index = None
    /\ agent_panes[i].tab_name \notin {tabs[k].name : k \in DOMAIN tabs}
    /\ ~HasSlot(apply_tab_update(St, tabs), i)
    /\ Len(apply_tab_update(St, tabs).agent_panes) > 0

\* C4: a pane manifest that reports a pane id held by a record whose tab
\* name is in the roster changes nothing of that record but its status.
C4_TabNameStability ==
  \A update \in AnyManifests, i \in DOMAIN agent_panes :
    LET after == apply_pane_update(St, update)
        before == St.agent_panes[i]
    IN (/\ IsSome(before.pane_id)
        /\ Unwrap(before.pane_id) \in ReportedIds(update)
        /\ Contains(tab_names, before.tab_name))
       => /\ HasSlot(after, i)
          /\ Slot(after, i) = [before EXCEPT !.status = Slot(after, i).status]
\* C4 witness: a record with a valid tab name is reported under a tab index
\* that resolves to another tab, and the manifest changes its status.
C4_Witness ==
  \E update \in Manifests, i \in DOMAIN agent_panes :
    /\ IsSome(agent_panes[i].pane_id)
    /\ Unwrap(agent_panes[i].pane_id) \in ReportedIds(update)
    /\ Contains(tab_names, agent_panes[i].tab_name)
    /\ TabNameFromIdx(tab_names, update[1].tab_idx) \notin {"", agent_panes[i].tab_name}
    /\ Slot(apply_pane_update(St, update), i).status # agent_panes[i].status

\* C8: after a pane-closed notification for id n no record holds n, and
\* every other record is still in the table, unchanged.
C8_PaneClosed ==
  \A k \in {"Terminal", "Plugin"}, n \in PaneIds :
    LET after == handle_pane_closed(St, [kind |-> k, id |-> n])
    IN /\ \A j \in DOMAIN after.agent_panes : after.agent_panes[j].pane_id # Some(n)
       /\ \A i \in DOMAIN agent_panes :
            agent_panes[i].pane_id # Some(n)
              => HasSlot(after, i) /\ Slot(after, i) = St.agent_panes[i]
       /\ Len(after.agent_panes) <= Len(agent_panes)
\* C8 witness: a notification that removes a record and leaves another.
C8_Witness ==
  \E n \in PaneIds, i, j \in DOMAIN agent_panes :
    /\ agent_panes[i].pane_id = Some(n)
    /\ agent_panes[j].pane_id # Some(n)
    /\ Len(handle_pane_closed(St, [kind |-> "Terminal", id |-> n]).agent_panes) = Len(agent_panes) - 1

\* C10: no handler and no call changes a host pane id that is set: a record
\* that had Some(n) and is still in the table has Some(n).
IdKept(after) ==
  \A j \in DOMAIN after.agent_panes :
    LET r == after.agent_panes[j]
    IN (r.uid # 0 /\ IsSome(agent_panes[r.uid].pane_id))
         => r.pane_id = agent_panes[r.uid].pane_id
C10_PaneIdImmutable ==
  /\ \A e \in HostEvents : IdKept(Update(St, e))
  /\ \A c \in UiCalls : IdKept(Call(St, c))
\* C10 witness: a confirmation for another pane id that carries the title of
\* a record whose id is set; the record keeps its id.
C10_Witness ==
  \E i \in DOMAIN agent_panes, n \in PaneIds :
    /\ IsSome(agent_panes[i].pane_id) /\ agent_panes[i].pane_id # Some(n)
    /\ \A j \in DOMAIN agent_panes : agent_panes[j].pane_id # Some(n)
    /\ Len(handle_command_pane_opened(
             St, n, Ctx(Some(agent_panes[i].pane_title), None, None, None)).agent_panes)
         = Len(agent_panes) + 1

\* The records of a table as (host pane id, status) pairs.
IdStatus(m) == {<<m.agent_panes[j].pane_id, m.agent_panes[j].status>> : j \in DOMAIN m.agent_panes}
\* C2: a spawn confirmation for pane n and a pane manifest that reports n,
\* applied in either order, leave the same records keyed by host pane id,
\* with the same status each.
C2_OrderIndependence ==
  \A n \in PaneIds, c \in AnyCtxs, update \in AnyManifests :
    n \in ReportedIds(update) =>
      LET confirm_first == apply_pane_update(handle_command_pane_opened(St, n, c), update)
          manifest_first == handle_command_pane_opened(apply_pane_update(St, update), n, c)
      IN /\ IdStatus(confirm_first) = IdStatus(manifest_first)
         /\ Len(confirm_first.agent_panes) = Len(manifest_first.agent_panes)

\* C5: a spawn adds one pending record with the chosen tab name and status
\* Running; after the confirmation of that spawn with pane id n that record
\* holds n and the table has as many records as after the spawn.
C5_SpawnThenConfirm ==
  permissions_granted =>
    \A w \in Workspaces \cup {""}, tc \in TabChoices, n \in PaneIds :
      LET spawned == spawn_agent_pane(St, w, "codex", tc, NewUuid)
          k == Len(agent_panes) + 1
          confirmed == handle_command_pane_opened(
                         spawned, n, SpawnCtx(St, w, "codex", tc, NewUuid))
      IN /\ Len(spawned.agent_panes) = k
         /\ spawned.agent_panes[k].pane_id = None
         /\ spawned.agent_panes[k].status = Running
         /\ spawned.agent_panes[k].tab_name =
              (IF tc[1] = "Existing" THEN tc[2] ELSE default_tab_name(w))
         /\ Len(confirmed.agent_panes) = k
         /\ confirmed.agent_panes[k].pane_id = Some(n)

\* C6: when a manifest reports a pane whose id no record holds and whose
\* title is the reserved title of a pending record, that record gets the
\* id and no record is created.
C6_ReservedTitleMatch ==
  \A update \in AnyManifests, i \in DOMAIN agent_panes :
    (/\ Len(update) = 1 /\ Len(update[1].panes) = 1
     /\ agent_panes[i].pane_id = None
     /\ agent_panes[i].pane_title = update[1].panes[1].title
     /\ \A j \in DOMAIN agent_panes : agent_panes[j].pane_id # Some(update[1].panes[1].id))
    => LET after == apply_pane_update(St, update)
       IN /\ Slot(after, i).pane_id = Some(update[1].panes[1].id)
          /\ Len(after.agent_panes) = Len(agent_panes)

\* The session a snapshot flags as current, when it is the pinned session or
\* none is pinned yet.
IsCurrentSnapshot(sessions) ==
  \E k \in DOMAIN sessions :
    /\ sessions[k].is_current_session
    /\ \A j \in 1..(k - 1) : ~sessions[j].is_current_session
    /\ session_name \in {None, Some(sessions[k].name)}
    /\ \A j \in DOMAIN sessions : j # k => sessions[j].name # sessions[k].name
CurrentOf(sessions) ==
  sessions[CHOOSE k \in DOMAIN sessions : sessions[k].is_current_session
                                        /\ \A j \in 1..(k - 1) : ~sessions[j].is_current_session]
\* The case of C7: entry e and pane j of the current session's manifest
\* report a pane in a named tab, held by no record, with a title that is no
\* reserved title, while record i is the one pending record of that tab.
RehydrationCase(sessions, e, j, i) ==
  LET cur == CurrentOf(sessions)
      pane == cur.panes[e].panes[j]
      tab == TabLookup(cur.tabs, cur.panes[e].tab_idx)
  IN /\ tab # ""
     /\ \A r \in DOMAIN agent_panes : agent_panes[r].pane_id # Some(pane.id)
     /\ pane.title \notin PendingTitles
     /\ agent_panes[i].pane_id = None /\ agent_panes[i].tab_name = tab
     /\ \A r \in DOMAIN agent_panes :
          (agent_panes[r].pane_id = None /\ agent_panes[r].tab_name = tab) => r = i
\* C7 as stated: in that case the pending record gets the pane's id and the
\* number of records is unchanged.
C7_RehydrationAsStated ==
  \A sessions \in AnySnapshots :
    IsCurrentSnapshot(sessions) =>
      \A e \in DOMAIN CurrentOf(sessions).panes :
        \A j \in DOMAIN CurrentOf(sessions).panes[e].panes, i \in DOMAIN agent_panes :
          RehydrationCase(sessions, e, j, i) =>
            LET after == handle_session_update(St, sessions)
            IN /\ Slot(after, i).pane_id = Some(CurrentOf(sessions).panes[e].panes[j].id)
               /\ Len(after.agent_panes) = Len(agent_panes)
\* C7: in that case, when the pane is the first pane listed under the tab
\* whose id no record holds, the pending record gets the pane's id and no
\* other record holds that id; the number of records is unchanged when
\* every other pane of the snapshot is held by a record.
C7_Rehydration ==
  \A sessions \in AnySnapshots :
    IsCurrentSnapshot(sessions) =>
      \A e \in DOMAIN CurrentOf(sessions).panes :
        \A j \in DOMAIN CurrentOf(sessions).panes[e].panes, i \in DOMAIN agent_panes :
          LET list == CurrentOf(sessions).panes[e].panes
              after == handle_session_update(St, sessions)
          IN (/\ RehydrationCase(sessions, e, j, i)
              /\ \A q \in 1..(j - 1) :
                   \E r \in DOMAIN agent_panes : agent_panes[r].pane_id = Some(list[q].id))
             => /\ HasSlot(after, i)
                /\ Slot(after, i).pane_id = Some(list[j].id)
                /\ \A r \in DOMAIN after.agent_panes :
                     after.agent_panes[r].pane_id = Some(list[j].id)
                       => after.agent_panes[r].uid = i
                /\ (\A x \in DOMAIN CurrentOf(sessions).panes :
                      \A q \in DOMAIN CurrentOf(sessions).panes[x].panes :
                        (x # e \/ q # j) =>
                          \E r \in DOMAIN agent_panes :
                            agent_panes[r].pane_id
                              = Some(CurrentOf(sessions).panes[x].panes[q].id))
                     => Len(after.agent_panes) = Len(agent_panes)
\* C7 witness: a snapshot lists a held pane and then an unheld one under the
\* tab of the one pending record, which gets the id of the unheld pane.
C7_Witness ==
  \E sessions \in Snapshots :
    /\ IsCurrentSnapshot(sessions)
    /\ \E e \in DOMAIN CurrentOf(sessions).panes, i \in DOMAIN agent_panes :
         /\ Len(CurrentOf(sessions).panes[e].panes) = 2
         /\ RehydrationCase(sessions, e, 2, i)
         /\ \E r \in DOMAIN agent_panes :
              agent_panes[r].pane_id = Some(CurrentOf(sessions).panes[e].panes[1].id)
         /\ Slot(handle_session_update(St, sessions), i).pane_id
              = Some(CurrentOf(sessions).panes[e].panes[2].id)

\* C9: delivering a host event twice in a row leaves the Model the first
\* delivery left.
C9_ReplayIdempotence ==
  \A e \in HostEvents :
    View(Update(Settle(Update(St, e)), e)) = View(Update(St, e))

\* C11: in every reachable state every record without a host pane id has a
\* non-empty title or a pending tab index.
C11_PendingReachable ==
  \A i \in DOMAIN agent_panes :
    agent_panes[i].pane_id = None
      => agent_panes[i].pane_title # "" \/ IsSome(agent_panes[i].pending_tab_index)
\* C11 witness: a pending record, left by a spawn, next to a confirmed one.
C11_Witness ==
  \E i, j \in DOMAIN agent_panes :
    /\ agent_panes[i].pane_id = None /\ agent_panes[i].pane_title # ""
    /\ IsSome(agent_panes[j].pane_id)

\* The roster while the user renames the one tab and has deleted every
\* character of its name.
RenamingTabLists == {<<TabInfo(0, "")>>}

\* What C12 allows one handler call to do to the tab name of a record that
\* stays in the table: `roster_update` is TRUE and `names` is the new roster
\* when the call is a tab-roster update.
TabNameKept(after, roster_update, names) ==
  \A j \in DOMAIN after.agent_panes :
    LET r == after.agent_panes[j]
        before == agent_panes[r.uid]
    IN r.uid # 0 =>
         /\ before.tab_name # "" => r.tab_name # ""
         /\ (Contains(tab_names, before.tab_name) /\ r.tab_name # before.tab_name)
              => /\ roster_update
                 /\ IsSome(before.pending_tab_index)
                 /\ Get(names, Unwrap(before.pending_tab_index)) = Some(r.tab_name)
         /\ (roster_update /\ Contains(names, before.tab_name))
              => r.tab_name = before.tab_name
\* C12: no event and no call empties a non-empty tab name; a tab name of the
\* current roster is changed only by a tab-roster update that resolves the
\* pending tab index the record still has; a tab-roster update changes no
\* tab name that is in the new roster.
C12_TabNameNeverRegresses ==
  /\ \A e \in HostEvents \cup {[kind |-> "TabUpdate", tabs |-> t] : t \in RenamingTabLists} :
       TabNameKept(Update(St, e), e.kind = "TabUpdate",
                   IF e.kind = "TabUpdate" THEN TabNamesOf(SortByPosition(e.tabs)) ELSE <<>>)
  /\ \A c \in UiCalls : TabNameKept(Call(St, c), FALSE, <<>>)

\* The title a notification names: that of its context, else "pane:{id}".
TitleOf(ctx, pane_id) ==
  IF IsSome(ctx.pane_title) THEN Unwrap(ctx.pane_title) ELSE PaneFallbackTitle(pane_id)
\* Record i is the one record an exited or rerun notification for pane n
\* with that title can mean: it holds n or has the title, and no other does.
OnlyNotified(i, n, title) ==
  \A r \in DOMAIN agent_panes :
    (agent_panes[r].pane_id = Some(n) \/ agent_panes[r].pane_title = title) <=> r = i
\* Record i is the one record a confirmation for pane n with that title can
\* mean: it holds n or is pending with the title, and no other is.
OnlyConfirmed(i, n, title) ==
  \A r \in DOMAIN agent_panes :
    (\/ agent_panes[r].pane_id = Some(n)
     \/ (agent_panes[r].pane_id = None /\ agent_panes[r].pane_title = title)) <=> r = i
\* Record i is the one record that holds pane id n.
OnlyHolder(i, n) ==
  \A r \in DOMAIN agent_panes : agent_panes[r].pane_id = Some(n) <=> r = i
\* C13: a status is always Running or Exited(code); whatever the status of
\* a record is, an exited notification for it sets Exited(code), a rerun
\* notification or a confirmation for it sets Running, and a manifest that
\* reports its pane sets Exited(exit_status) if the pane is reported exited
\* and Running otherwise.
C13_StatusMovesFreely ==
  /\ \A i \in DOMAIN agent_panes :
       \/ agent_panes[i].status = Running
       \/ \E x \in ExitStatuses \cup {None} : agent_panes[i].status = Exited(x)
  /\ \A i \in DOMAIN agent_panes, n \in PaneIds :
       /\ \A c \in AnyTitleCtxs :
            OnlyNotified(i, n, TitleOf(c, n)) =>
              /\ \A x \in ExitStatuses \cup {None} :
                   Slot(handle_command_pane_exited(St, n, x, c), i).status = Exited(x)
              /\ Slot(handle_command_pane_rerun(St, n, c), i).status = Running
       /\ \A c \in AnyCtxs :
            OnlyConfirmed(i, n, TitleOf(c, n)) =>
              Slot(handle_command_pane_opened(St, n, c), i).status = Running
       /\ \A update \in AnyManifests :
            (OnlyHolder(i, n) /\ Len(update) = 1 /\ Len(update[1].panes) = 1
             /\ update[1].panes[1].id = n)
              => Slot(apply_pane_update(St, update), i).status
                   = (IF update[1].panes[1].exited
                      THEN Exited(update[1].panes[1].exit_status) ELSE Running)
\* C13 witness: a record that is Exited, which a rerun notification sets to
\* Running and a manifest reporting its pane exited sets to Exited again.
C13_Witness ==
  \E i \in DOMAIN agent_panes, n \in PaneIds, p \in ExitedPaneInfos :
    /\ OnlyNotified(i, n, TitleOf(EmptyCtx, n))
    /\ agent_panes[i].status # Running
    /\ p.id = n
    /\ Slot(apply_pane_update(
              Settle(handle_command_pane_rerun(St, n, EmptyCtx)),
              <<ManifestEntry(0, <<p>>)>>), i).status = Exited(p.exit_status)
    /\ Slot(handle_command_pane_rerun(St, n, EmptyCtx), i).status = Running

\* A snapshot that flags as current a session other than the pinned one.
SwitchesSession(sessions) ==
  /\ IsSome(session_name)
  /\ \E k \in DOMAIN sessions :
       /\ sessions[k].is_current_session
       /\ \A j \in 1..(k - 1) : ~sessions[j].is_current_session
       /\ Some(sessions[k].name) # session_name
\* Record i may leave the table by host event e: a pane-closed notification
\* that names its pane id, or a tab-roster update when it is pending, has no
\* pending tab index and its tab is not in the new roster.
MayLeaveByEvent(i, e) ==
  \/ e.kind = "PaneClosed" /\ agent_panes[i].pane_id = Some(e.pane_id.id)
  \/ /\ e.kind = "TabUpdate"
     /\ agent_panes[i].pane_id = None
     /\ agent_panes[i].pending_tab_index = None
     /\ agent_panes[i].tab_name \notin {e.tabs[k].name : k \in DOMAIN e.tabs}
\* Record i may leave the table by call c: a kill of a record with its pane id.
MayLeaveByCall(i, c) ==
  /\ c.kind = "kill"
  /\ c.selected_idx < Len(agent_panes)
  /\ IsSome(agent_panes[i].pane_id)
  /\ agent_panes[c.selected_idx + 1].pane_id = agent_panes[i].pane_id
UnknownAgents == {"nope", ""}
\* A spawn of an unknown agent has failed cleanly: AgentNotFound is the
\* error, the table and the roster are as before, no host call was made.
FailedCleanly(after, agent_name) ==
  /\ after.error_message = ErrAgentNotFound(agent_name)
  /\ after.agent_panes = St.agent_panes
  /\ after.tab_names = tab_names
  /\ after.requests = <<>>
\* C15 as stated: every spawn of an agent name that is not in the catalog
\* fails cleanly with AgentNotFound.
C15_UnknownAgentFailsCleanly ==
  \A w \in Workspaces \cup {""}, a \in UnknownAgents, tc \in TabChoices :
    FailedCleanly(spawn_agent_pane(St, w, a, tc, NewUuid), a)
\* C15: while permissions are granted, every spawn of an agent name that is
\* not in the catalog fails cleanly with AgentNotFound.
C15_UnknownAgentFailsCleanlyIfGranted ==
  permissions_granted =>
    \A w \in Workspaces \cup {""}, a \in UnknownAgents, tc \in TabChoices :
      FailedCleanly(spawn_agent_pane(St, w, a, tc, NewUuid), a)
\* C15 witness: a table with a record and a roster without the tab a new-tab
\* spawn would create, where the spawn of an unknown agent fails.
C15_Witness ==
  /\ permissions_granted
  /\ Len(agent_panes) > 0
  /\ ~Contains(tab_names, default_tab_name("/host/proj"))
  /\ spawn_agent_pane(St, "/host/proj", "nope", TabChoiceNew, NewUuid).error_message
       = ErrAgentNotFound("nope")

C17_PendingFocusKillNoOp ==
  \A i \in DOMAIN agent_panes, k \in {"focus", "kill"} :
    agent_panes[i].pane_id = None =>
      LET after == Call(St, [kind |-> k, selected_idx |-> i - 1])
      IN /\ after.error_message = ErrPaneIdUnavailable
         /\ after.agent_panes = St.agent_panes
         /\ after.requests = <<>>

\* Snapshots of two sessions that both list panes, in either order, with
\* at most one of them flagged current.
IsolationSnapshots ==
  {x \in {<<SessionInfo(a, <<TabInfo(0, "a")>>, pa, ca),
            SessionInfo(b, SessionTabs,
                        <<ManifestEntry(1, <<PaneInfo(2, FALSE, "bash", None, TRUE, Some(0))>>)>>,
                        cb)>> :
            a \in SessionNames, b \in SessionNames, pa \in OtherManifests,
            ca \in BOOLEAN, cb \in BOOLEAN} :
     /\ x[1].name # x[2].name
     /\ ~(x[1].is_current_session /\ x[2].is_current_session)}
\* The sessions of a snapshot that carry the given pinned name.
OnlySession(sessions, pinned) == SelectSeq(sessions, LAMBDA s : Some(s.name) = pinned)

HoldsDuplicateId(m) ==
  \E i, j \in DOMAIN m.agent_panes :
    i # j /\ IsSome(m.agent_panes[i].pane_id)
          /\ m.agent_panes[i].pane_id = m.agent_panes[j].pane_id
\* A record of a Model is pending and names a tab that is not in the roster.
HoldsOrphanedPending(m) ==
  \E i \in DOMAIN m.agent_panes :
    m.agent_panes[i].pane_id = None /\ ~Contains(m.tab_names, m.agent_panes[i].tab_name)
\* A full reconciliation pass: a snapshot of the current session, then the
\* tab-roster update of that session's tabs.
ReconciliationPass(m, sessions) ==
  apply_tab_update(Settle(handle_session_update(m, sessions)), CurrentOf(sessions).tabs)

\* C20: from a table with two records of one host pane id, or with a
\* pending record of a tab that is not in the roster, a full reconciliation
\* pass leads to a table with neither.
C20_SelfHealing ==
  (HoldsDuplicateId(St) \/ HoldsOrphanedPending(St)) =>
    \A sessions \in Snapshots :
      IsCurrentSnapshot(sessions) =>
        LET after == ReconciliationPass(St, sessions)
        IN ~HoldsDuplicateId(after) /\ ~HoldsOrphanedPending(after)

\* A snapshot of the current session that lists three tabs out of order.
HydrationSnapshots ==
  {<<SessionInfo(n, <<TabInfo(2, "b"), TabInfo(0, "a"), TabInfo(1, "maestro:proj")>>,
                 <<>>, TRUE)>> : n \in SessionNames}
\* names lists the names of tabs by ascending position.
IsByPosition(names, tabs) ==
  /\ Len(names) = Len(tabs)
  /\ \E f \in [DOMAIN tabs -> DOMAIN tabs] :
       /\ \A i, j \in DOMAIN tabs : i # j => f[i] # f[j]
       /\ \A i \in DOMAIN tabs : names[i] = tabs[f[i]].name
       /\ \A i, j \in DOMAIN tabs : i < j => tabs[f[i]].position <= tabs[f[j]].position

\* C21: after a snapshot that flags a session as current, the stored
\* session name is that session's name and the roster is that session's tab
\* names by ascending position, in whatever order they were listed.
C21_SnapshotHydratesRoster ==
  \A sessions \in AnySnapshots \cup IsolationSnapshots \cup HydrationSnapshots :
    (\E k \in DOMAIN sessions : sessions[k].is_current_session) =>
      LET after == handle_session_update(St, sessions)
      IN /\ after.session_name = Some(CurrentOf(sessions).name)
         /\ IsByPosition(after.tab_names, CurrentOf(sessions).tabs)
C21_Witness ==
  \E sessions \in Snapshots :
    /\ IsCurrentSnapshot(sessions)
    /\ CurrentOf(sessions).tabs[1].position > CurrentOf(sessions).tabs[2].position
    /\ tab_names # TabNamesOf(CurrentOf(sessions).tabs)
    /\ handle_session_update(St, sessions).tab_names = tab_names
    /\ session_name = Some(CurrentOf(sessions).name)
    /\ Len(agent_panes) > 0

\* ------------------------------------------- the selection and the filter
\* A second behaviour of the plugin, in which the user also moves the
\* selection, edits the type-down filter and kills the selected row, while
\* the host delivers the events that change the table or the roster.
FilterTexts == {"", "c", "m"}
SelectionEvents ==
  {[kind |-> "TabUpdate", tabs |-> t] : t \in {<<>>, <<TabInfo(0, "a")>>}}
  \cup {[kind |-> "PaneUpdate",
         update |-> <<ManifestEntry(0, <<PaneInfo(n, FALSE, "Codex - proj", Some("CX"), FALSE, None)>>)>>] :
          n \in PaneIds}
  \cup {[kind |-> "SessionUpdate",
         sessions |-> <<SessionInfo(OwnSession, SessionTabs, <<>>, TRUE)>>]}
  \cup {[kind |-> "CommandPaneOpened", pane_id |-> n, ctx |-> c] :
          n \in PaneIds, c \in {x \in Ctxs : x.tab_name = Some("a")}}
  \cup {[kind |-> "PaneClosed", pane_id |-> [kind |-> "Terminal", id |-> n]] : n \in PaneIds}

\* load(): the catalog is the loaded one, or empty when loading failed.
InitSelection ==
  /\ permissions_granted = FALSE
  /\ permissions_denied = FALSE
  /\ agents \in {Catalog, <<>>}
  /\ agent_panes = <<>>
  /\ tab_names = <<>>
  /\ error_message = ""
  /\ filter_text = ""
  /\ session_name = None
  /\ selected_pane = 0
  /\ selected_agent = 0
  /\ custom_tab_name = None

HostEvent ==
  permissions_granted /\ \E e \in SelectionEvents : Step(Update(St, e))
\* Up and Down over a pane list that has a row.
MoveSelection ==
  /\ Len(agent_panes) > 0
  /\ \E delta \in {-1, 1} : Step(move_selection(St, delta))
\* A letter typed into the empty filter, or Backspace on a one-letter filter.
FilterKey ==
  \E text \in FilterTexts :
    /\ (filter_text = "") # (text = "")
    /\ Step(edit_filter(St, text))
\* The kill key on the selected row, when the table has a row of that index.
KillSelected ==
  /\ permissions_granted
  /\ selected_pane < Len(agent_panes)
  /\ Step(kill_selected(St, selected_pane))

NextSelection ==
  \/ PermissionRequestResult
  \/ HostEvent
  \/ Spawn
  \/ MoveSelection
  \/ FilterKey
  \/ KillSelected

SpecSelection == InitSelection /\ [][NextSelection]_vars

\* Both selection indices of a Model are in range.
PaneSelectionInRange(m) ==
  IF ShownLen(m) = 0 THEN m.selected_pane = 0 ELSE m.selected_pane < ShownLen(m)
AgentSelectionInRange(m) ==
  IF Len(m.agents) = 0 THEN m.selected_agent = 0 ELSE m.selected_agent < Len(m.agents)

\* C22: after every host event handler and after a kill, selected_pane is 0
\* when the filter shows no record and below the number of shown records
\* otherwise, and selected_agent likewise against the catalog;
\* clamp_selections brings any pair of indices into range and leaves an
\* index that is in range as it is.
C22_SelectionsInRange ==
  /\ \A e \in HostEvents :
       LET after == Update(St, e)
       IN PaneSelectionInRange(after) /\ AgentSelectionInRange(after)
  /\ \A i \in 0..Len(agent_panes) :
       LET after == kill_selected(St, i)
       IN PaneSelectionInRange(after) /\ AgentSelectionInRange(after)
  /\ \A sp \in 0..(MaxPanes + 1), sa \in 0..2 :
       LET before == [St EXCEPT !.selected_pane = sp, !.selected_agent = sa]
           after == clamp_selections(before)
       IN /\ PaneSelectionInRange(after) /\ AgentSelectionInRange(after)
          /\ PaneSelectionInRange(before) => after.selected_pane = sp
          /\ AgentSelectionInRange(before) => after.selected_agent = sa
          /\ [after EXCEPT !.selected_pane = sp, !.selected_agent = sa] = before
C22_Witness ==
  /\ filter_text = "m"
  /\ selected_pane = 1
  /\ Len(agent_panes) = 2
  /\ apply_tab_update(St, <<TabInfo(0, "a")>>).selected_pane = 0
  /\ Len(apply_tab_update(St, <<TabInfo(0, "a")>>).agent_panes) = 1

\* Record i of the table is one a roster update with these tabs is to
\* resolve: its pending tab index is within the new roster and its tab name
\* is empty or is no name of the new roster.
ToResolve(i, tabs) ==
  LET names == TabNamesOf(SortByPosition(tabs))
  IN /\ IsSome(agent_panes[i].pending_tab_index)
     /\ Unwrap(agent_panes[i].pending_tab_index) < Len(names)
     /\ (agent_panes[i].tab_name = "" \/ ~Contains(names, agent_panes[i].tab_name))

\* C23: after a tab-roster update every record that had a pending tab index
\* within the new roster, and a tab name that was empty or no name of the
\* new roster, has the roster name of that index as its tab name and no
\* pending tab index.
C23_RosterResolvesAndClears ==
  \A tabs \in AnyTabLists, i \in DOMAIN agent_panes :
    ToResolve(i, tabs) =>
      LET after == apply_tab_update(St, tabs)
          names == TabNamesOf(SortByPosition(tabs))
      IN /\ HasSlot(after, i)
         /\ Slot(after, i).tab_name = names[Unwrap(agent_panes[i].pending_tab_index) + 1]
         /\ Slot(after, i).pending_tab_index = None

\* Entry e, pane j of a manifest reports, under a tab index that resolves to
\* a roster name, the pane id of record i (the first record with that id),
\* whose tab name is empty or is no name of the roster; no other pane of the
\* manifest has that id.
RepairCase(update, e, j, i) ==
  LET pane == update[e].panes[j]
  IN /\ agent_panes[i].pane_id = Some(pane.id)
     /\ \A k \in 1..(i - 1) : agent_panes[k].pane_id # Some(pane.id)
     /\ TabNameFromIdx(tab_names, update[e].tab_idx) # ""
     /\ (agent_panes[i].tab_name = "" \/ ~Contains(tab_names, agent_panes[i].tab_name))
     /\ \A e2 \in DOMAIN update :
          \A j2 \in DOMAIN update[e2].panes :
            update[e2].panes[j2].id = pane.id => (e2 = e /\ j2 = j)

\* C24: a pane manifest that reports, under a tab index that resolves to a
\* roster name, the pane id of a record whose tab name is empty or not in
\* the roster sets that record's tab name to the resolved name, and its
\* status to the reported one.
C24_IdentityMatchRepairsTab ==
  \A update \in AnyManifests :
    \A e \in DOMAIN update :
      \A j \in DOMAIN update[e].panes, i \in DOMAIN agent_panes :
        RepairCase(update, e, j, i) =>
          LET after == apply_pane_update(St, update)
          IN /\ HasSlot(after, i)
             /\ Slot(after, i).tab_name = TabNameFromIdx(tab_names, update[e].tab_idx)
             /\ Slot(after, i).status = StatusOf(update[e].panes[j])

\* Manifests of one pane whose command and title disagree about the agent,
\* or whose title is the bare agent name.
AttributionManifests ==
  {<<ManifestEntry(0, <<PaneInfo(id, plugin, f[1], f[2], FALSE, None)>>)>> :
     id \in PaneIds, plugin \in BOOLEAN,
     f \in {<<"Codex - proj", Some("bash")>>, <<"bash", Some("CX")>>,
            <<"codex", None>>, <<"bash", Some("codex")>>}}
\* The reported panes of a manifest, in the order they are processed.
RECURSIVE ReportedPanes(_)
ReportedPanes(update) ==
  IF update = <<>> THEN <<>> ELSE Head(update).panes \o ReportedPanes(Tail(update))
\* The catalog agents the command of a pane (its title, when it has no
\* command) names: by the executable or by the agent name, whatever the case.
AttributedTo(pane) ==
  LET hint == IF IsSome(pane.terminal_command) THEN Unwrap(pane.terminal_command)
              ELSE pane.title
  IN {a \in DOMAIN agents :
        /\ agents[a].command # <<>>
        /\ \/ AsciiLower(agents[a].command[1]) = AsciiLower(TitleBase(hint))
           \/ AsciiLower(agents[a].name) = AsciiLower(TitleBase(hint))}
\* The reported panes that may create a record: held by no record, not a
\* plugin pane, attributable.
Creators(update) ==
  {k \in DOMAIN ReportedPanes(update) :
     LET pane == ReportedPanes(update)[k]
     IN /\ \A i \in DOMAIN agent_panes : agent_panes[i].pane_id # Some(pane.id)
        /\ ~pane.is_plugin
        /\ AttributedTo(pane) # {}}

DiscoverySnapshots ==
  {<<SessionInfo(OwnSession, tabs,
                 <<ManifestEntry(t, <<PaneInfo(id, FALSE, "Codex - proj", Some("CX"), FALSE, None)>>)>>,
                 TRUE)>> :
     tabs \in {<<>>, <<TabInfo(0, "")>>, <<TabInfo(1, "a")>>, SessionTabs},
     t \in 0..1, id \in PaneIds}
\* The tab index a manifest lists pane id n under (ids are listed once).
ReportedUnder(entries, n) ==
  entries[CHOOSE e \in DOMAIN entries :
            \E j \in DOMAIN entries[e].panes : entries[e].panes[j].id = n].tab_idx
\* The name a roster gives a tab index: "" when it has no such index.
NameAt(names, idx) == IF idx < Len(names) THEN names[idx + 1] ELSE ""
\* The name a tab list gives a tab position: "" when it lists no such tab.
NameOfPosition(tabs, idx) ==
  IF \E k \in DOMAIN tabs : tabs[k].position = idx
  THEN tabs[CHOOSE k \in DOMAIN tabs : tabs[k].position = idx].name
  ELSE ""
\* A discovered record carries its tab as C26 says, for the name its tab
\* index resolves to.
CarriesIndex(r, idx, resolved) ==
  IF resolved = ""
  THEN r.tab_name = "" /\ r.pending_tab_index = Some(idx)
  ELSE r.tab_name = resolved /\ r.pending_tab_index = None

\* C26: a record created by a pane manifest or by a session snapshot has
\* pending_tab_index = Some(tab index) and an empty tab name when the
\* reported tab index resolves to no non-empty name, and otherwise the
\* resolved name and no pending tab index.
C26_DiscoveredRecordCarriesIndex ==
  /\ \A update \in AnyManifests \cup AttributionManifests :
       LET after == apply_pane_update(St, update)
       IN \A r \in (Len(agent_panes) + 1)..Len(after.agent_panes) :
            LET idx == ReportedUnder(update, Unwrap(after.agent_panes[r].pane_id))
            IN CarriesIndex(after.agent_panes[r], idx, NameAt(tab_names, idx))
  /\ \A sessions \in Snapshots \cup DiscoverySnapshots :
       IsCurrentSnapshot(sessions) =>
         LET after == handle_session_update(St, sessions)
             cur == CurrentOf(sessions)
         IN \A r \in DOMAIN after.agent_panes :
              after.agent_panes[r].uid = 0 =>
                LET idx == ReportedUnder(cur.panes, Unwrap(after.agent_panes[r].pane_id))
                IN CarriesIndex(after.agent_panes[r], idx, NameOfPosition(cur.tabs, idx))
C26_Witness ==
  /\ \E update \in Manifests :
       LET after == apply_pane_update(St, update)
       IN /\ Len(after.agent_panes) = Len(agent_panes) + 2
          /\ after.agent_panes[1].pending_tab_index = None
          /\ IsSome(after.agent_panes[2].pending_tab_index)
  /\ \E sessions \in DiscoverySnapshots :
       LET after == handle_session_update(St, sessions)
       IN /\ Len(after.agent_panes) = Len(agent_panes) + 1
          /\ after.agent_panes[Len(after.agent_panes)].pending_tab_index = Some(1)

\* The record of a Model that holds pane id n (the first one).
RecordOf(m, n) ==
  m.agent_panes[CHOOSE i \in DOMAIN m.agent_panes :
                  /\ m.agent_panes[i].pane_id = Some(n)
                  /\ \A j \in 1..(i - 1) : m.agent_panes[j].pane_id # Some(n)]
\* A manifest of one pane that no record holds and that creates a record,
\* listed under an index of the roster `tabs` gives.
CommuteCase(tabs, update) ==
  /\ Len(update) = 1 /\ Len(update[1].panes) = 1
  /\ Creators(update) = {1}
  /\ update[1].tab_idx < Len(tabs)

\* C27: for a roster update and a manifest that reports an unknown
\* attributable pane under an index of the new roster, roster-then-manifest
\* and manifest-then-roster leave the same record for the pane: same pane id,
\* same status, and the tab name the new roster gives the index.
C27_RosterManifestCommute ==
  \A tabs \in AnyTabLists, update \in AnyManifests :
    CommuteCase(tabs, update) =>
      LET n == update[1].panes[1].id
          rm == apply_pane_update(Settle(apply_tab_update(St, tabs)), update)
          mr == apply_tab_update(Settle(apply_pane_update(St, update)), tabs)
          name == TabNamesOf(SortByPosition(tabs))[update[1].tab_idx + 1]
      IN /\ \E i \in DOMAIN rm.agent_panes : rm.agent_panes[i].pane_id = Some(n)
         /\ \E i \in DOMAIN mr.agent_panes : mr.agent_panes[i].pane_id = Some(n)
         /\ RecordOf(rm, n).status = RecordOf(mr, n).status
         /\ RecordOf(rm, n).tab_name = name
         /\ RecordOf(mr, n).tab_name = name

\* Record i is the one a confirmation for pane n with this context matches:
\* the first record that holds n or is pending under the context's title.
ConfirmationMatches(i, n, ctx) ==
  LET Hit(p) == p.pane_id = Some(n) \/ (p.pane_id = None /\ p.pane_title = TitleOf(ctx, n))
  IN Hit(agent_panes[i]) /\ \A j \in 1..(i - 1) : ~Hit(agent_panes[j])
\* A field of the record after the confirmation: its own value when it had
\* one, else the value of the context (`fallback` when the context has none).
FilledIfEmpty(before, after, value, fallback) ==
  IF before # "" THEN after = before
  ELSE IF IsSome(value) THEN after = Unwrap(value)
  ELSE after = fallback

\* C28: a spawn confirmation that matches a record takes tab_name,
\* workspace_path and agent_name from the context only where the record's
\* own field is empty, leaves a non-empty field as it is, and sets the
\* status to Running.
C28_ConfirmationFillsEmptyFields ==
  \A n \in PaneIds, ctx \in AnyCtxs, i \in DOMAIN agent_panes :
    ConfirmationMatches(i, n, ctx) =>
      LET after == handle_command_pane_opened(St, n, ctx)
          b == agent_panes[i]
          a == Slot(after, i)
      IN /\ HasSlot(after, i)
         /\ a.status = Running
         /\ FilledIfEmpty(b.tab_name, a.tab_name, ctx.tab_name,
                          IF tab_names = <<>> THEN "" ELSE tab_names[1])
         /\ FilledIfEmpty(b.workspace_path, a.workspace_path, ctx.cwd, "")
         /\ FilledIfEmpty(b.agent_name, a.agent_name, ctx.agent, "")

\* A notification has set the status of record i, and of no other record.
StatusSetOnlyOn(after, i, status) ==
  /\ \A r \in DOMAIN agent_panes : HasSlot(after, r)
  /\ Slot(after, i).status = status
  /\ \A r \in DOMAIN agent_panes : r # i => Slot(after, r).status = agent_panes[r].status

\* C29: an exited or rerun notification for pane id n, when one record holds
\* n, sets the status of that record and of no other, whatever record has
\* the title of the notification's context.
C29_NotificationPrefersPaneId ==
  \A n \in PaneIds, ctx \in AnyTitleCtxs, i \in DOMAIN agent_panes :
    OnlyHolder(i, n) =>
      /\ \A x \in ExitStatuses \cup {None} :
           StatusSetOnlyOn(handle_command_pane_exited(St, n, x, ctx), i, Exited(x))
      /\ StatusSetOnlyOn(handle_command_pane_rerun(St, n, ctx), i, Running)

\* No record holds pane id n and no record has the title a notification for
\* n with this context names.
UnknownPane(n, ctx) ==
  \A r \in DOMAIN agent_panes :
    agent_panes[r].pane_id # Some(n) /\ agent_panes[r].pane_title # TitleOf(ctx, n)

\* C30: an exited or rerun notification that no record matches, by pane id
\* or by title, leaves the table and the roster as they are.
C30_UnknownNotificationNoOp ==
  \A n \in PaneIds, ctx \in AnyTitleCtxs :
    UnknownPane(n, ctx) =>
      /\ \A x \in ExitStatuses \cup {None} :
           LET after == handle_command_pane_exited(St, n, x, ctx)
           IN after.agent_panes = St.agent_panes /\ after.tab_names = tab_names
      /\ LET after == handle_command_pane_rerun(St, n, ctx)
         IN after.agent_panes = St.agent_panes /\ after.tab_names = tab_names
C30_Witness ==
  \E n \in PaneIds, i, j \in DOMAIN agent_panes :
    /\ UnknownPane(n, EmptyCtx)
    /\ UnknownPane(n, Ctx(Some("proj:u0"), None, None, None))
    /\ IsSome(agent_panes[i].pane_id) /\ agent_panes[i].status = Running
    /\ agent_panes[j].pane_id = None
    /\ handle_command_pane_exited(St, n, Some(1), EmptyCtx).agent_panes = St.agent_panes

\* The ids of the plugin panes a manifest lists.
PluginIds(entries) ==
  {p.id : p \in {ReportedPanes(entries)[k] : k \in {j \in DOMAIN ReportedPanes(entries) :
                                                      ReportedPanes(entries)[j].is_plugin}}}

\* C31: after a snapshot of the current session no record that was pending
\* holds the id of a pane the snapshot reports as a plugin pane.
C31_NoPluginPaneAdopted ==
  \A sessions \in Snapshots :
    IsCurrentSnapshot(sessions) =>
      LET after == handle_session_update(St, sessions)
      IN \A i \in DOMAIN agent_panes :
           (agent_panes[i].pane_id = None /\ HasSlot(after, i)) =>
             \A n \in PluginIds(CurrentOf(sessions).panes) :
               Slot(after, i).pane_id # Some(n)

\* Entry e, pane j of the current session's manifest reports a pane that no
\* record holds and whose title is the reserved title of pending record i,
\* the only pending record of that title.
ReservedTitleCase(sessions, e, j, i) ==
  LET pane == CurrentOf(sessions).panes[e].panes[j]
  IN /\ \A r \in DOMAIN agent_panes : agent_panes[r].pane_id # Some(pane.id)
     /\ agent_panes[i].pane_id = None /\ agent_panes[i].pane_title = pane.title
     /\ \A r \in DOMAIN agent_panes :
          (agent_panes[r].pane_id = None /\ agent_panes[r].pane_title = pane.title) => r = i

\* C32: a snapshot of the current session that reports an unheld pane whose
\* title is the reserved title of pending record X gives the pane's id to X
\* and to no other record, old or new.
C32_RehydrationMatchPriority ==
  \A sessions \in Snapshots :
    IsCurrentSnapshot(sessions) =>
      \A e \in DOMAIN CurrentOf(sessions).panes :
        \A j \in DOMAIN CurrentOf(sessions).panes[e].panes, i \in DOMAIN agent_panes :
          ReservedTitleCase(sessions, e, j, i) =>
            LET after == handle_session_update(St, sessions)
                n == CurrentOf(sessions).panes[e].panes[j].id
            IN /\ HasSlot(after, i)
               /\ Slot(after, i).pane_id = Some(n)
               /\ \A r \in DOMAIN after.agent_panes :
                    after.agent_panes[r].pane_id = Some(n) => after.agent_panes[r].uid = i

\* Snapshots of the current session that list two panes of different ids
\* under tab "a": agents, shells and plugin panes in any combination.
TieBreakSnapshots ==
  {<<SessionInfo(OwnSession, SessionTabs, <<ManifestEntry(0, <<p, q>>)>>, TRUE)>> :
     p \in {x \in RunningPaneInfos : x.id = 1 /\ x.title \in {"bash", "Codex - proj"}},
     q \in {x \in PaneInfos : x.id = 2 /\ x.title \in {"bash", "Codex - proj"}}}
\* The pending records of tab `tab`, as slots in store order.
PendingIn(tab) ==
  SelectSeq([i \in DOMAIN agent_panes |-> i],
            LAMBDA i : agent_panes[i].pane_id = None /\ agent_panes[i].tab_name = tab)
\* The panes of a list that no record holds, in reported order.
Unheld(list) ==
  SelectSeq(list, LAMBDA p : \A r \in DOMAIN agent_panes : agent_panes[r].pane_id # Some(p.id))

\* C33: under each named tab of a snapshot of the current session, the q-th
\* reported pane that no record holds goes to the q-th pending record of the
\* tab counted from the end of the table; the pending records left over stay
\* pending, and no two records end up with one of these panes.
C33_UnmatchedInTabLifo ==
  \A sessions \in Snapshots \cup TieBreakSnapshots :
    IsCurrentSnapshot(sessions) =>
      \A e \in DOMAIN CurrentOf(sessions).panes :
        LET cur == CurrentOf(sessions)
            tab == NameOfPosition(cur.tabs, cur.panes[e].tab_idx)
            pending == PendingIn(tab)
            unheld == Unheld(cur.panes[e].panes)
            k == Len(pending)
            after == handle_session_update(St, sessions)
        IN tab # "" =>
             /\ \A q \in 1..k :
                  /\ HasSlot(after, pending[k - q + 1])
                  /\ Slot(after, pending[k - q + 1]).pane_id
                       = IF q <= Len(unheld) THEN Some(unheld[q].id) ELSE None
             /\ \A q \in DOMAIN unheld :
                  Cardinality({r \in DOMAIN after.agent_panes :
                                 after.agent_panes[r].pane_id = Some(unheld[q].id)}) <= 1
C33_Witness ==
  \E sessions \in Snapshots :
    /\ IsCurrentSnapshot(sessions)
    /\ Len(agent_panes) = 2
    /\ Len(PendingIn("a")) = 2
    /\ Len(CurrentOf(sessions).panes) = 1
    /\ Len(Unheld(CurrentOf(sessions).panes[1].panes)) = 2
    /\ handle_session_update(St, sessions).agent_panes[2].pane_id
         = Some(CurrentOf(sessions).panes[1].panes[1].id)
    /\ handle_session_update(St, sessions).agent_panes[1].pane_id
         = Some(CurrentOf(sessions).panes[1].panes[2].id)

\* The record a confirmation for pane n with title t must leave in the table.
Landed(m, n, t) ==
  \E r \in DOMAIN m.agent_panes :
    /\ m.agent_panes[r].pane_title = t
    /\ m.agent_panes[r].pane_id = Some(n)
    /\ m.agent_panes[r].status = Running

\* C34: in every state the events after a spawn can lead to, processing the
\* confirmation that carries title t and pane id n leaves a record with
\* title t, pane id n and status Running.
C34_ConfirmationLands ==
  \A n \in PaneIds : \A ctx \in AnyCtxs :
    IsSome(ctx.pane_title) =>
      Landed(handle_command_pane_opened(St, n, ctx), n, Unwrap(ctx.pane_title))
C34_Witness ==
  \E n \in PaneIds : \E ctx \in Ctxs : \E i \in DOMAIN agent_panes :
    /\ Len(agent_panes) = 1
    /\ agent_panes[i].pane_title = Unwrap(ctx.pane_title)
    /\ agent_panes[i].workspace_path # ""
    /\ agent_panes[i].pane_id # None
    /\ agent_panes[i].pane_id # Some(n)
    /\ agent_panes[i].status # Running
    /\ Len(handle_command_pane_opened(St, n, ctx).agent_panes) = 2
    /\ Landed(handle_command_pane_opened(St, n, ctx), n, Unwrap(ctx.pane_title))

\* The record a spawn call appended to the table, if it appended one.
Spawned(m) == {r \in DOMAIN m.agent_panes : m.agent_panes[r].uid = 0}

\* C35: every record with a pending tab index has a pane id; the record a
\* spawn appends has no pending tab index; and a roster update keeps a
\* pending record exactly when the new roster holds its tab_name.
C35_PendingIndexImpliesPaneId ==
  /\ \A i \in DOMAIN agent_panes :
       IsSome(agent_panes[i].pending_tab_index) => IsSome(agent_panes[i].pane_id)
  /\ \A c \in UiCalls :
       c.kind = "spawn" =>
         \A r \in Spawned(Call(St, c)) :
           /\ Call(St, c).agent_panes[r].pending_tab_index = None
           /\ Call(St, c).agent_panes[r].pane_id = None
  /\ \A tabs \in AnyTabLists : \A i \in DOMAIN agent_panes :
       agent_panes[i].pane_id = None =>
         (HasSlot(apply_tab_update(St, tabs), i)
            <=> Contains(TabNamesOf(SortByPosition(tabs)), agent_panes[i].tab_name))
C35_Witness ==
  \E tabs \in AnyTabLists : \E i, j \in DOMAIN agent_panes :
    /\ IsSome(agent_panes[i].pending_tab_index)
    /\ IsSome(agent_panes[i].pane_id)
    /\ agent_panes[j].pane_id = None
    /\ agent_panes[j].pending_tab_index = None
    /\ HasSlot(apply_tab_update(St, tabs), i)
    /\ ~HasSlot(apply_tab_update(St, tabs), j)

\* The confirmation for pane n with title t locates no record: none holds n
\* and no pending record carries t.
Unlocated(n, t) ==
  \A r \in DOMAIN agent_panes :
    /\ agent_panes[r].pane_id # Some(n)
    /\ ~(agent_panes[r].pane_id = None /\ agent_panes[r].pane_title = t)
\* The title a confirmation carries, or the one derived from the pane id.
ConfirmedTitle(n, ctx) ==
  IF IsSome(ctx.pane_title) THEN Unwrap(ctx.pane_title) ELSE "pane:" \o ToString(n)
\* The tab a created record is filed under.
ConfirmedTab(ctx) ==
  IF IsSome(ctx.tab_name) THEN Unwrap(ctx.tab_name)
  ELSE IF Len(tab_names) > 0 THEN tab_names[1] ELSE ""

\* C36: a confirmation that locates no record appends exactly one record,
\* with the pane id, status Running, the title of the context (or "pane:n")
\* and the tab of the context, else the first roster name, else "", and
\* leaves the records already in the table as they were.
C36_UnmatchedConfirmationCreates ==
  \A n \in PaneIds : \A ctx \in AnyCtxs :
    Unlocated(n, ConfirmedTitle(n, ctx)) =>
      LET after == handle_command_pane_opened(St, n, ctx)
          k == Len(agent_panes)
      IN /\ Len(after.agent_panes) = k + 1
         /\ SubSeq(after.agent_panes, 1, k) = St.agent_panes
         /\ after.agent_panes[k + 1].pane_id = Some(n)
         /\ after.agent_panes[k + 1].status = Running
         /\ after.agent_panes[k + 1].pane_title = ConfirmedTitle(n, ctx)
         /\ after.agent_panes[k + 1].tab_name = ConfirmedTab(ctx)
C36_Witness ==
  \E n \in PaneIds :
    /\ Len(agent_panes) = 1
    /\ Len(tab_names) > 0
    /\ Unlocated(n, ConfirmedTitle(n, EmptyCtx))
    /\ Len(handle_command_pane_opened(St, n, EmptyCtx).agent_panes) = 2
    /\ handle_command_pane_opened(St, n, EmptyCtx).agent_panes[2].pane_title
         = "pane:" \o ToString(n)
    /\ handle_command_pane_opened(St, n, EmptyCtx).agent_panes[2].tab_name = tab_names[1]

\* The snapshot marks a current session, and it is the pinned one.
IsSameSessionSnapshot(sessions) ==
  /\ \E c \in DOMAIN sessions : sessions[c].is_current_session
  /\ session_name = Some(CurrentOf(sessions).name)
\* Record `new` is record `old` with at most its status changed, or, when
\* `old` was pending, its pane id set as well.
OnlyAdopted(old, new) ==
  /\ new.tab_name = old.tab_name
  /\ new.pane_title = old.pane_title
  /\ new.agent_name = old.agent_name
  /\ new.workspace_path = old.workspace_path
  /\ new.pending_tab_index = old.pending_tab_index
  /\ (IsSome(old.pane_id) => new.pane_id = old.pane_id)

\* C37: a snapshot whose current session is the pinned one keeps every
\* record in its place, changes at most the status of a record and the pane
\* id of a pending one, appends its new records behind them, and installs
\* the sorted roster of that session while records of tabs that the roster
\* lacks stay.
C37_SameSessionSnapshotOnlyAdopts ==
  \A sessions \in AnySnapshots :
    IsSameSessionSnapshot(sessions) =>
      LET after == handle_session_update(St, sessions)
          k == Len(agent_panes)
          s == FindIndex(sessions, LAMBDA x : x.name = Unwrap(session_name))
      IN /\ Len(after.agent_panes) >= k
         /\ \A i \in 1..k :
              /\ after.agent_panes[i].uid = i
              /\ OnlyAdopted(agent_panes[i], after.agent_panes[i])
         /\ \A i \in (k + 1)..Len(after.agent_panes) : after.agent_panes[i].uid = 0
         /\ after.tab_names = TabNamesOf(SortByPosition(sessions[s].tabs))
         /\ after.session_name = session_name
C37_Witness ==
  \E sessions \in AnySnapshots : \E i \in DOMAIN agent_panes :
    /\ IsSameSessionSnapshot(sessions)
    /\ agent_panes[i].pane_id = None
    /\ handle_session_update(St, sessions).tab_names # tab_names
    /\ ~Contains(handle_session_update(St, sessions).tab_names, agent_panes[i].tab_name)
    /\ HasSlot(handle_session_update(St, sessions), i)
    /\ Len(handle_session_update(St, sessions).agent_panes) > Len(agent_panes)

\* A pane-closed notification for pane n of the given kind.
ClosedAs(kind, n) == handle_pane_closed(St, [kind |-> kind, id |-> n])

\* C38: a pane-closed notification for plugin pane n leaves the same Model
\* as one for terminal pane n, and that Model holds no record with id n.
C38_PaneClosedIgnoresKind ==
  \A n \in PaneIds :
    /\ ClosedAs("Plugin", n) = ClosedAs("Terminal", n)
    /\ \A r \in DOMAIN ClosedAs("Plugin", n).agent_panes :
         ClosedAs("Plugin", n).agent_panes[r].pane_id # Some(n)
C38_Witness ==
  \E n \in PaneIds : \E i \in DOMAIN agent_panes :
    /\ Len(agent_panes) = 2
    /\ agent_panes[i].pane_id = Some(n)
    /\ Len(ClosedAs("Plugin", n).agent_panes) = 1
    /\ ClosedAs("Plugin", n) = ClosedAs("Terminal", n)

\* No record of m holds pane id n.
Forgotten(m, n) == \A r \in DOMAIN m.agent_panes : m.agent_panes[r].pane_id # Some(n)
\* The Model after the pane-closed notification of terminal pane n.
Closed(m, n) == handle_pane_closed(m, [kind |-> "Terminal", id |-> n])

\* Manifests that still list pane n as an agent pane, running or exited.
Relisting(n) ==
  {<<ManifestEntry(t, <<PaneInfo(n, FALSE, "Codex - proj", Some("CX"), x # None, x)>>)>> :
     t \in TabIndices, x \in ExitStatuses \cup {None}}

\* C39: with permissions granted, kill on a record that holds pane id n
\* issues close_terminal_pane(n) and leaves no record with id n; the
\* pane-closed notification for n right after it changes nothing; and after
\* one manifest of any content, or two that list n again, between the kill
\* and that notification, no record holds n once the notification is
\* processed.
C39_KillRemovesAheadOfHost ==
  permissions_granted =>
    \A i \in DOMAIN agent_panes :
      IsSome(agent_panes[i].pane_id) =>
        LET n == Unwrap(agent_panes[i].pane_id)
            killed == kill_selected(St, i - 1)
        IN /\ killed.requests = Append(St.requests, Request("close_terminal_pane", "", Some(n)))
           /\ Forgotten(killed, n)
           /\ Len(killed.agent_panes) < Len(agent_panes)
           /\ Closed(killed, n) = killed
           /\ \A u1 \in AnyManifests :
                Forgotten(Closed(apply_pane_update(killed, u1), n), n)
           /\ \A u1 \in Relisting(n) : \A u2 \in Relisting(n) :
                Forgotten(Closed(apply_pane_update(apply_pane_update(killed, u1), u2), n), n)
C39_Witness ==
  \E i \in DOMAIN agent_panes : \E n \in PaneIds : \E u \in Manifests :
    /\ permissions_granted
    /\ agent_panes[i].pane_id = Some(n)
    /\ Forgotten(kill_selected(St, i - 1), n)
    /\ ~Forgotten(apply_pane_update(kill_selected(St, i - 1), u), n)
    /\ Forgotten(Closed(apply_pane_update(kill_selected(St, i - 1), u), n), n)

====
